---- MODULE Spec2Model ----
(***************************************************************************)
(* A model of the bookstore storage engine (package storage) and of the    *)
(* master/replica replication of the storage server (package web/server).  *)
(*                                                                         *)
(* The backend is an address space of byte offsets.  The model keeps one   *)
(* cell per offset the engine ever addresses: offset 0 (the store header), *)
(* the position of every chunk (its 32-byte chunk header) and that         *)
(* position plus chunkHeaderSize (the chunk's payload region).             *)
(*                                                                         *)
(* gzip is modelled by a run-length code behind a one-byte magic header:   *)
(* like gzip it is lossless, has a fixed overhead, can come out shorter    *)
(* than, as long as or longer than its input, and its decoder rejects a    *)
(* buffer that does not start with the magic or ends inside a token.       *)
(***************************************************************************)
EXTENDS Integers, Sequences, FiniteSets, TLC

\* ------------------------------------------------------------------ bounds

\* number of chunks of the storages the model creates
NumChunks == 3
\* payload capacity of one chunk, in bytes
ChunkDataSize == 2
\* longest payload a caller submits
MaxLen == 6
\* most Write / WriteTo calls made on one engine in a run
MaxCalls == 2

\* ------------------------------------------------------- program constants

storageVersion == 1
storeHeaderSize == 24
chunkHeaderSize == 32

\* the header Version values a backend file may carry
Versions == {-1, 0, 1, 2}
\* the StorageID the storages are created with
TheStorageID == <<104>>

\* the payloads callers submit: <<1, 2, ..., n>>, which the run-length code
\* never shortens, and runs of one byte, which it leaves as long at length 3
\* and shortens from length 4 on
Ramp(n) == [i \in 1..n |-> i]
Run(b, n) == [i \in 1..n |-> b]
Payloads == {Ramp(n) : n \in 0..MaxLen} \cup {Run(1, n) : n \in 3..MaxLen}

\* ------------------------------------------------------------------- gzip

GzipMagic == <<9>>

\* length of the run of equal bytes data starts with
RECURSIVE RunLen(_)
RunLen(data) ==
    IF Len(data) <= 1 THEN Len(data)
    ELSE IF data[2] = data[1] THEN 1 + RunLen(Tail(data)) ELSE 1

RECURSIVE Deflate(_)
Deflate(data) ==
    IF Len(data) = 0 THEN <<>>
    ELSE LET n == RunLen(data)
         IN <<n, data[1]>> \o Deflate(SubSeq(data, n + 1, Len(data)))

RECURSIVE Inflate(_)
Inflate(buf) ==
    IF Len(buf) = 0 THEN [err |-> "", data |-> <<>>]
    ELSE IF Len(buf) = 1 THEN [err |-> "unexpected EOF", data |-> <<>>]
    ELSE LET rest == Inflate(SubSeq(buf, 3, Len(buf)))
         IN IF rest.err # "" THEN rest
            ELSE [err |-> "", data |-> [i \in 1..buf[1] |-> buf[2]] \o rest.data]

zip(data) == GzipMagic \o Deflate(data)

unzip(buf) ==
    IF Len(buf) < Len(GzipMagic) \/ SubSeq(buf, 1, Len(GzipMagic)) # GzipMagic
    THEN [err |-> "gzip: invalid header", data |-> <<>>]
    ELSE Inflate(SubSeq(buf, Len(GzipMagic) + 1, Len(buf)))

\* ---------------------------------------------------------------- backend

Positions(chunkSize, numChunks) ==
    {storeHeaderSize + i * chunkSize : i \in 0..(numChunks - 1)}

\* MemBackend.WriteAt of an encoded header: the whole cell is replaced
WriteAtHeader(mem, h, off) == [mem EXCEPT ![off] = h]

\* MemBackend.WriteAt of payload bytes: the bytes past len(p) stay as they were
WriteAt(mem, p, off) ==
    [mem EXCEPT ![off] = p \o SubSeq(@, Len(p) + 1, Len(@))]

\* MemBackend.ReadAt of n payload bytes
ReadAt(mem, n, off) == SubSeq(mem[off], 1, n)

\* the chunk loop of CreateStorage, without the assignment cHeader.Next = -1
RECURSIVE createChunksZeroNext(_, _, _, _)
createChunksZeroNext(mb, i, numChunks, chunkDataSize) ==
    IF ~(i < numChunks) THEN mb
    ELSE createChunksZeroNext(
            [data |-> (mb.idx :> [DataSize |-> 0, Next |-> 0, Compressed |-> FALSE])
                      @@ (mb.idx + chunkHeaderSize :> [j \in 1..chunkDataSize |-> 0])
                      @@ mb.data,
             idx |-> mb.idx + chunkHeaderSize + chunkDataSize],
            i + 1, numChunks, chunkDataSize)

\* the chunk loop of CreateStorage: every iteration appends a zeroed chunk
\* header with Next = -1 and chunkDataSize zero bytes at the backend's write
\* position (MemBackend.Write appends at mb.idx and advances it)
RECURSIVE createChunks(_, _, _, _)
createChunks(mb, i, numChunks, chunkDataSize) ==
    IF ~(i < numChunks) THEN mb
    ELSE LET cHeader == [DataSize |-> 0, Next |-> -1, Compressed |-> FALSE]
             cData == [j \in 1..chunkDataSize |-> 0]
             mb1 == [data |-> (mb.idx :> cHeader) @@ mb.data,
                     idx |-> mb.idx + chunkHeaderSize]
             mb2 == [data |-> (mb1.idx :> cData) @@ mb1.data,
                     idx |-> mb1.idx + Len(cData)]
         IN createChunks(mb2, i + 1, numChunks, chunkDataSize)

\* CreateStorage on an empty backend: the backend's bytes and its write
\* position, which is its size.  version is storageVersion for a file this
\* program created; a file of another version of the program carries its own
createBackend(chunkDataSize, numChunks, storageID, version) ==
    LET header == [StorageID |-> storageID,
                   Version |-> version,
                   ChunkSize |-> chunkDataSize + chunkHeaderSize,
                   NumChunks |-> numChunks,
                   FreeChunkIdx |-> 0]
    IN createChunks([data |-> (0 :> header), idx |-> storeHeaderSize],
                    0, numChunks, chunkDataSize)

CreateStorage(chunkDataSize, numChunks, storageID, version) ==
    createBackend(chunkDataSize, numChunks, storageID, version).data

\* ----------------------------------------------------------------- engine

NoStorage == [open |-> FALSE]

GetChunkDataSize(s) == s.header.ChunkSize - chunkHeaderSize

getChunkPosition(s, idx) ==
    IF idx >= s.header.NumChunks \/ idx < 0 THEN -1
    ELSE storeHeaderSize + idx * s.header.ChunkSize

IsFull(s) == s.header.FreeChunkIdx >= s.header.NumChunks

\* Open without the comparison of the header's Version
OpenAnyVersion(mem) ==
    [s |-> [open |-> TRUE, header |-> mem[0]], err |-> "",
     log |-> <<[ev |-> "ReadAt", arg |-> 0]>>]

\* Open / readHeader: the header is decoded into s.header before the
\* version is compared; a mismatch returns no Storage
Open(mem) ==
    LET header == mem[0]
    IN IF header.Version # storageVersion
       THEN [s |-> NoStorage, err |-> "storage version mismatch",
             log |-> <<[ev |-> "ReadAt", arg |-> 0]>>]
       ELSE [s |-> [open |-> TRUE, header |-> header], err |-> "",
             log |-> <<[ev |-> "ReadAt", arg |-> 0]>>]

\* the loop with the storage-full test off by one
RECURSIVE writeChunksLateFull(_, _, _, _, _, _)
writeChunksLateFull(s, mem, data, currChunk, gzipped, log) ==
    IF Len(data) = 0
    THEN [err |-> "", mem |-> mem, currChunk |-> currChunk, log |-> log]
    ELSE IF currChunk > s.header.NumChunks
    THEN [err |-> "storage is full", mem |-> mem, currChunk |-> currChunk, log |-> log]
    ELSE LET pos == getChunkPosition(s, currChunk)
             n == IF Len(data) > GetChunkDataSize(s) THEN GetChunkDataSize(s)
                  ELSE Len(data)
             header == [DataSize |-> n,
                        Next |-> IF Len(data) > n THEN currChunk + 1 ELSE -1,
                        Compressed |-> gzipped]
             mem2 == WriteAt(WriteAtHeader(mem, header, pos), SubSeq(data, 1, n),
                             pos + chunkHeaderSize)
         IN IF pos < 0
            THEN [err |-> "index out of bounds", mem |-> mem,
                  currChunk |-> currChunk, log |-> log]
            ELSE writeChunksLateFull(s, mem2, SubSeq(data, n + 1, Len(data)),
                                     currChunk + 1, gzipped,
                                     log \o <<[ev |-> "WriteAt", arg |-> pos],
                                              [ev |-> "WriteAt",
                                               arg |-> pos + chunkHeaderSize]>>)

\* the loop with the last chunk of a record pointing at the chunk after it
RECURSIVE writeChunksOpenEnd(_, _, _, _, _, _)
writeChunksOpenEnd(s, mem, data, currChunk, gzipped, log) ==
    IF Len(data) = 0
    THEN [err |-> "", mem |-> mem, currChunk |-> currChunk, log |-> log]
    ELSE IF currChunk >= s.header.NumChunks
    THEN [err |-> "storage is full", mem |-> mem, currChunk |-> currChunk, log |-> log]
    ELSE LET pos == getChunkPosition(s, currChunk)
             n == IF Len(data) > GetChunkDataSize(s) THEN GetChunkDataSize(s)
                  ELSE Len(data)
             header == [DataSize |-> n, Next |-> currChunk + 1,
                        Compressed |-> gzipped]
             mem2 == WriteAt(WriteAtHeader(mem, header, pos), SubSeq(data, 1, n),
                             pos + chunkHeaderSize)
         IN writeChunksOpenEnd(s, mem2, SubSeq(data, n + 1, Len(data)),
                               currChunk + 1, gzipped,
                               log \o <<[ev |-> "WriteAt", arg |-> pos],
                                        [ev |-> "WriteAt",
                                         arg |-> pos + chunkHeaderSize]>>)

\* the for-loop of writeTo: one iteration per chunk of the record
RECURSIVE writeChunks(_, _, _, _, _, _)
writeChunks(s, mem, data, currChunk, gzipped, log) ==
    IF Len(data) = 0
    THEN [err |-> "", mem |-> mem, currChunk |-> currChunk, log |-> log]
    ELSE IF currChunk >= s.header.NumChunks
    THEN [err |-> "storage is full", mem |-> mem, currChunk |-> currChunk, log |-> log]
    ELSE LET pos == getChunkPosition(s, currChunk)
             maxChunkDataSize == GetChunkDataSize(s)
             bytesLeft == Len(data)
             last == ~(bytesLeft > maxChunkDataSize)
             bytesToWrite == IF last THEN bytesLeft ELSE maxChunkDataSize
             header == [DataSize |-> bytesToWrite,
                        Next |-> IF last THEN -1 ELSE currChunk + 1,
                        Compressed |-> gzipped]
             mem1 == WriteAtHeader(mem, header, pos)
             mem2 == WriteAt(mem1, SubSeq(data, 1, bytesToWrite), pos + chunkHeaderSize)
         IN IF pos < 0
            THEN [err |-> "index out of bounds", mem |-> mem,
                  currChunk |-> currChunk, log |-> log]
            ELSE writeChunks(s, mem2, SubSeq(data, bytesToWrite + 1, bytesLeft),
                             currChunk + 1, gzipped,
                             log \o <<[ev |-> "WriteAt", arg |-> pos],
                                      [ev |-> "WriteAt", arg |-> pos + chunkHeaderSize]>>)

\* writeHeader: the in-memory header is encoded and written at offset 0
writeHeader(s, mem) == WriteAtHeader(mem, s.header, 0)

\* the callbacks the callers of this repository pass: one that succeeds, one
\* that fails ("nil", no callback, is handled by writeTo and passed by nobody)
Callbacks == {"ok", "fail"}

\* writeTo with the free pointer stored before the callback's verdict
writeToCommitFirst(s, mem, buf, idx, callback, gzipped) ==
    LET w == writeChunks(s, mem, buf, idx, gzipped, <<>>)
        s2 == [s EXCEPT !.header.FreeChunkIdx = w.currChunk]
        stored == w.log \o <<[ev |-> "WriteAt", arg |-> 0]>>
    IN IF w.err # ""
       THEN [s |-> s, mem |-> w.mem, res |-> -1, err |-> w.err, log |-> w.log]
       ELSE IF callback = "fail"
       THEN [s |-> s2, mem |-> writeHeader(s2, w.mem), res |-> -1,
             err |-> "replication error",
             log |-> stored \o <<[ev |-> "callback", arg |-> idx]>>]
       ELSE [s |-> s2, mem |-> writeHeader(s2, w.mem), res |-> idx, err |-> "",
             log |-> IF callback = "nil" THEN stored
                     ELSE stored \o <<[ev |-> "callback", arg |-> idx]>>]

\* writeTo that stores the new FreeChunkIdx only if it exceeds the current one
writeToNeverBack(s, mem, buf, idx, callback, gzipped) ==
    LET w == writeChunks(s, mem, buf, idx, gzipped, <<>>)
        called == IF callback = "nil" THEN w.log
                  ELSE w.log \o <<[ev |-> "callback", arg |-> idx]>>
        s2 == [s EXCEPT !.header.FreeChunkIdx =
                            IF w.currChunk > @ THEN w.currChunk ELSE @]
    IN IF w.err # ""
       THEN [s |-> s, mem |-> w.mem, res |-> -1, err |-> w.err, log |-> w.log]
       ELSE IF callback = "fail"
       THEN [s |-> s, mem |-> w.mem, res |-> -1, err |-> "replication error",
             log |-> called]
       ELSE [s |-> s2, mem |-> writeHeader(s2, w.mem), res |-> idx, err |-> "",
             log |-> called \o <<[ev |-> "WriteAt", arg |-> 0]>>]

writeTo(s, mem, buf, idx, callback, gzipped) ==
    LET w == writeChunks(s, mem, buf, idx, gzipped, <<>>)
        called == IF callback = "nil" THEN w.log
                  ELSE w.log \o <<[ev |-> "callback", arg |-> idx]>>
        s2 == [s EXCEPT !.header.FreeChunkIdx = w.currChunk]
    IN IF w.err # ""
       THEN [s |-> s, mem |-> w.mem, res |-> -1, err |-> w.err, log |-> w.log]
       ELSE IF callback = "fail"
       THEN [s |-> s, mem |-> w.mem, res |-> -1, err |-> "replication error",
             log |-> called]
       ELSE [s |-> s2, mem |-> writeHeader(s2, w.mem), res |-> idx, err |-> "",
             log |-> called \o <<[ev |-> "WriteAt", arg |-> 0]>>]

\* the buffer WriteTo stores and its Compressed flag
EffectiveBuffer(data) ==
    LET buf == zip(data)
    IN IF Len(data) < Len(buf)
       THEN [buf |-> data, gzipped |-> FALSE]
       ELSE [buf |-> buf, gzipped |-> TRUE]

WriteTo(s, mem, data, idx, callback) ==
    LET e == EffectiveBuffer(data)
        at == IF idx < 0 THEN s.header.FreeChunkIdx ELSE idx
    IN writeTo(s, mem, e.buf, at, callback, e.gzipped)

\* Write that always starts at chunk 0
WriteAtZero(s, mem, data, callback) == WriteTo(s, mem, data, 0, callback)

Write(s, mem, data, callback) == WriteTo(s, mem, data, -1, callback)

\* where a backend's WriteAt returns an error during one call: nowhere, at
\* the first chunk header, at the store header
Faults == {"none", "chunk", "header"}

\* writeTo on such a backend.  The loop returns the backend's error before
\* anything else is done; writeHeader's error is returned after
\* s.header.FreeChunkIdx was assigned, with the header in the file as it was
writeToFailing(s, mem, buf, idx, callback, gzipped, fault) ==
    LET r == writeTo(s, mem, buf, idx, callback, gzipped)
    IN IF fault = "chunk" /\ Len(buf) > 0 /\ getChunkPosition(s, idx) >= 0
       THEN [s |-> s, mem |-> mem, res |-> -1, err |-> "write error",
             log |-> <<>>]
       ELSE IF fault = "header" /\ r.err = ""
       THEN [s |-> r.s, mem |-> WriteAtHeader(r.mem, mem[0], 0), res |-> -1,
             err |-> "write error", log |-> r.log]
       ELSE r

\* WriteTo, and Write for idx = -1, on such a backend
WriteToFailing(s, mem, data, idx, callback, fault) ==
    LET e == EffectiveBuffer(data)
        at == IF idx < 0 THEN s.header.FreeChunkIdx ELSE idx
    IN writeToFailing(s, mem, e.buf, at, callback, e.gzipped, fault)

\* the loop with the bounds test off by one
RECURSIVE readChainLateBound(_, _, _, _, _)
readChainLateBound(s, mem, idx, out, chunkCount) ==
    IF idx > s.header.FreeChunkIdx \/ idx < 0
    THEN [err |-> "index out of bounds", buf |-> <<>>, chunkCount |-> 0,
          gzipped |-> FALSE]
    ELSE LET pos == getChunkPosition(s, idx)
             header == mem[pos]
             out2 == out \o ReadAt(mem, header.DataSize, pos + chunkHeaderSize)
         IN IF header.Next < 0
            THEN [err |-> "", buf |-> out2, chunkCount |-> chunkCount + 1,
                  gzipped |-> header.Compressed]
            ELSE readChainLateBound(s, mem, header.Next, out2, chunkCount + 1)

\* the for-loop of readRaw: follows Next from idx, collecting DataSize bytes
\* of every chunk; the Compressed flag returned is the last chunk's.  The
\* position -1 of a chunk past the last one is passed to the backend
\* unchecked: a file's ReadAt fails with "negative offset"
RECURSIVE readChain(_, _, _, _, _)
readChain(s, mem, idx, out, chunkCount) ==
    IF idx >= s.header.FreeChunkIdx \/ idx < 0
    THEN [err |-> "index out of bounds", buf |-> <<>>, chunkCount |-> 0,
          gzipped |-> FALSE]
    ELSE IF getChunkPosition(s, idx) < 0
    THEN [err |-> "negative offset", buf |-> <<>>, chunkCount |-> 0,
          gzipped |-> FALSE]
    ELSE LET pos == getChunkPosition(s, idx)
             header == mem[pos]
             out2 == out \o ReadAt(mem, header.DataSize, pos + chunkHeaderSize)
         IN IF header.Next < 0
            THEN [err |-> "", buf |-> out2, chunkCount |-> chunkCount + 1,
                  gzipped |-> header.Compressed]
            ELSE readChain(s, mem, header.Next, out2, chunkCount + 1)

readRaw(s, mem, idx) == readChain(s, mem, idx, <<>>, 0)

Read(s, mem, idx) ==
    LET r == readRaw(s, mem, idx)
    IN IF r.err # "" THEN [err |-> r.err, data |-> <<>>]
       ELSE IF r.gzipped THEN unzip(r.buf)
       ELSE [err |-> "", data |-> r.buf]

\* the for-loop of Iter: items are the (idx, data) pairs handed to the callback
RECURSIVE iterFrom(_, _, _, _)
iterFrom(s, mem, idx, items) ==
    IF ~(idx < s.header.FreeChunkIdx) THEN [err |-> "", items |-> items]
    ELSE LET r == readRaw(s, mem, idx)
             d == IF r.gzipped THEN unzip(r.buf) ELSE [err |-> "", data |-> r.buf]
         IN IF r.err # "" THEN [err |-> r.err, items |-> items]
            ELSE IF d.err # "" THEN [err |-> d.err, items |-> items]
            ELSE iterFrom(s, mem, idx + r.chunkCount, Append(items, <<idx, d.data>>))

Iter(s, mem) == iterFrom(s, mem, 0, <<>>)

\* positions in a call's log where the replication callback was invoked
CallbackAt(log) == {i \in 1..Len(log) : log[i].ev = "callback"}
\* positions in a call's log where the store header / a chunk was written
HeaderAt(log) == {i \in 1..Len(log) : log[i].ev = "WriteAt" /\ log[i].arg = 0}
ChunkAt(log) == {i \in 1..Len(log) : log[i].ev = "WriteAt" /\ log[i].arg # 0}

\* ------------------------------------------------------------ the program

VARIABLES
    mem,        \* the backend of the engine under test (the master's)
    st,         \* the Storage Open returned, or NoStorage
    last,       \* the last call on the engine: arguments, results, effects
    written,    \* <<idx, payload>> of every Write that succeeded, in call order
    pure,       \* every Write / WriteTo call so far was a Write that succeeded
    nextIdx,    \* idx + chunks of the last successful Write; -1 if unknown
    failedIdx,  \* start index of a Write whose callback failed, until the
                \* next successful Write / WriteTo; -1 if none
    calls,      \* number of Write / WriteTo calls (append requests) made so far
    rmem,       \* the backend of the replica's engine
    rst,        \* the replica's Storage
    net,        \* set/{idx} requests the master gave up on, still in flight
    hosts,      \* the storage servers behind the router: host -> engine, backend
    rt,         \* the Router: writers, readers, whether Start succeeded
    req,        \* the client request being handled or handled last
    acked,      \* {instance_id, item_id} answers of /put, with the payload put
    srv,        \* the web Servers of the two engines: role, routes once started
    locker,     \* Storage.locker of the engine: holders and blocked Lock calls
    procs,      \* the goroutines calling the engine: call, position, locals
    pinger      \* the router's pingUpstreams goroutine: position, hosts left
                \* in its round, lock events of its last ping; Stop

engineVars == <<mem, st, last, written, pure, nextIdx, failedIdx, calls>>
replVars == <<rmem, rst, net>>
routerVars == <<hosts, rt, req, acked, pinger>>
serverVars == <<srv>>
concVars == <<locker, procs>>
vars == <<mem, st, last, written, pure, nextIdx, failedIdx, calls, rmem, rst, net,
          hosts, rt, req, acked, srv, locker, procs, pinger>>

\* no router, no request
NoRouter == [started |-> FALSE]
NoRequest == [op |-> "none", pc |-> "done"]
\* pingUpstreams not running, Stop not called
NoPinger == [pc |-> "none", wtodo |-> {}, rtodo |-> {}, down |-> {},
             stopped |-> FALSE, log |-> <<>>]
\* a Server that NewServer built and Start has not been called on
NotStarted == [started |-> FALSE, role |-> "none", replicate |-> FALSE,
               info |-> "none", err |-> "", routes |-> {}]
NoServers == [a |-> NotStarted, b |-> NotStarted]
\* the zero sync.RWMutex: no writer (0), no readers, no blocked Lock call
\* (seq counts the Lock calls that returned)
NoLock == [w |-> 0, r |-> {}, pending |-> {}, seq |-> 0]
NoProcs == <<>>

NoCall == [op |-> "none", data |-> <<>>, idx |-> -1, cb |-> "nil", res |-> -1,
           err |-> "", out |-> <<>>, log |-> <<>>, free |-> -1]

\* free is the FreeChunkIdx the call found
Call(op, data, idx, cb, res, err, out, log, free) ==
    [op |-> op, data |-> data, idx |-> idx, cb |-> cb, res |-> res, err |-> err,
     out |-> out, log |-> log, free |-> free]

Ceil(l, c) == (l + c - 1) \div c

\* number of chunks the record of data occupies
ChunksOf(s, data) == Ceil(Len(EffectiveBuffer(data).buf), GetChunkDataSize(s))

\* a backend file as bsctl create left it, or one with a foreign Version
Init ==
    /\ \E v \in Versions :
          mem = CreateStorage(ChunkDataSize, NumChunks, TheStorageID, v)
    /\ st = NoStorage
    /\ last = NoCall
    /\ written = <<>>
    /\ pure = TRUE
    /\ nextIdx = -1
    /\ failedIdx = -1
    /\ calls = 0
    /\ rmem = <<>>
    /\ rst = NoStorage
    /\ net = {}
    /\ hosts = <<>>
    /\ rt = NoRouter
    /\ req = NoRequest
    /\ acked = {}
    /\ pinger = NoPinger
    /\ srv = NoServers
    /\ locker = NoLock
    /\ procs = NoProcs

OpenAct ==
    /\ ~st.open
    /\ last.op = "none"
    /\ LET r == Open(mem)
       IN /\ st' = r.s
          /\ last' = Call("Open", <<>>, -1, "nil", -1, r.err, <<>>, r.log, -1)
    /\ UNCHANGED <<mem, written, pure, nextIdx, failedIdx, calls>>
    /\ UNCHANGED <<replVars, routerVars, serverVars, concVars>>

WriteAct(data, cb) ==
    /\ st.open
    /\ calls < MaxCalls
    /\ calls' = calls + 1
    /\ LET r == Write(st, mem, data, cb)
       IN /\ st' = r.s
          /\ mem' = r.mem
          /\ last' = Call("Write", data, -1, cb, r.res, r.err, <<>>, r.log,
                          st.header.FreeChunkIdx)
          /\ written' = IF r.err = "" /\ pure
                        THEN Append(written, <<r.res, data>>) ELSE <<>>
          /\ pure' = (pure /\ r.err = "")
          /\ nextIdx' = IF r.err = "" THEN r.res + ChunksOf(st, data) ELSE nextIdx
          /\ failedIdx' = IF r.err = "" THEN -1
                          ELSE IF r.err = "replication error"
                          THEN st.header.FreeChunkIdx
                          ELSE failedIdx
    /\ UNCHANGED <<replVars, routerVars, serverVars, concVars>>

WriteToAct(data, idx, cb) ==
    /\ st.open
    /\ calls < MaxCalls
    /\ calls' = calls + 1
    /\ LET r == WriteTo(st, mem, data, idx, cb)
       IN /\ st' = r.s
          /\ mem' = r.mem
          /\ last' = Call("WriteTo", data, idx, cb, r.res, r.err, <<>>, r.log,
                          st.header.FreeChunkIdx)
          /\ failedIdx' = IF r.err = "" THEN -1 ELSE failedIdx
    /\ written' = <<>>
    /\ pure' = FALSE
    /\ nextIdx' = -1
    /\ UNCHANGED <<replVars, routerVars, serverVars, concVars>>

\* a Write (idx = -1) or WriteTo call on a backend whose WriteAt can fail
WriteFailingAct(data, idx, cb, fault) ==
    /\ st.open
    /\ calls < MaxCalls
    /\ calls' = calls + 1
    /\ \E r \in {WriteToFailing(st, mem, data, idx, cb, fault)} :
          /\ st' = r.s
          /\ mem' = r.mem
          /\ last' = Call(IF idx < 0 THEN "Write" ELSE "WriteTo", data, idx, cb,
                          r.res, r.err, <<>>, r.log, st.header.FreeChunkIdx)
          /\ failedIdx' = IF r.err = "" THEN -1 ELSE failedIdx
    /\ written' = <<>>
    /\ pure' = FALSE
    /\ nextIdx' = -1
    /\ UNCHANGED <<replVars, routerVars, serverVars, concVars>>

ReadAct(idx) ==
    /\ st.open
    /\ LET r == Read(st, mem, idx)
       IN last' = Call("Read", <<>>, idx, "nil", -1, r.err, r.data, <<>>,
                       st.header.FreeChunkIdx)
    /\ UNCHANGED <<mem, st, written, pure, nextIdx, failedIdx, calls>>
    /\ UNCHANGED <<replVars, routerVars, serverVars, concVars>>

IterAct ==
    /\ st.open
    /\ LET r == Iter(st, mem)
       IN last' = Call("Iter", <<>>, -1, "nil", -1, r.err, r.items, <<>>,
                       st.header.FreeChunkIdx)
    /\ UNCHANGED <<mem, st, written, pure, nextIdx, failedIdx, calls>>
    /\ UNCHANGED <<replVars, routerVars, serverVars, concVars>>

Reads ==
    \/ \E idx \in -1..NumChunks : ReadAct(idx)
    \/ IterAct

\* an engine that is only appended to (a master, bsctl move's destination)
Next ==
    \/ OpenAct
    \/ \E data \in Payloads, cb \in Callbacks : WriteAct(data, cb)
    \/ Reads

Spec == Init /\ [][Next]_vars

\* an engine that is also written at caller-supplied indices (a replica)
NextTo ==
    \/ Next
    \/ \E data \in Payloads, idx \in 0..NumChunks, cb \in Callbacks :
          WriteToAct(data, idx, cb)

SpecTo == Init /\ [][NextTo]_vars

\* an engine whose callers pass WriteTo any index: negative ones and ones
\* past the last chunk too
NextAny ==
    \/ Next
    \/ \E data \in Payloads, idx \in -1..(NumChunks + 1), cb \in Callbacks :
          WriteToAct(data, idx, cb)

SpecAny == Init /\ [][NextAny]_vars

\* an engine on a backend whose writes can fail
NextFailing ==
    \/ OpenAct
    \/ \E data \in Payloads, idx \in -1..NumChunks, cb \in Callbacks,
          fault \in Faults : WriteFailingAct(data, idx, cb, fault)
    \/ Reads

SpecFailing == Init /\ [][NextFailing]_vars

\* ------------------------------------------------ master and replica

\* getIncomingData: a request without data is answered 400
getIncomingData(data) ==
    IF data = <<>> THEN [code |-> 400, err |-> "input data is empty"]
    ELSE [code |-> 200, err |-> ""]

\* setData on a server that replicates to nobody: its callback returns nil
setData(s, m, idx, data) ==
    LET in == getIncomingData(data)
        r == WriteTo(s, m, data, idx, "ok")
    IN IF in.code # 200
       THEN [code |-> in.code, id |-> -1, s |-> s, mem |-> m, log |-> <<>>]
       ELSE [code |-> IF r.err = "" THEN 200 ELSE 500, id |-> idx,
             s |-> r.s, mem |-> r.mem, log |-> r.log]

\* what becomes of the POST set/{idx} that doReplication sends within the
\* replication timeout: it never arrives; it is handled and answered; it is
\* handled but the answer does not arrive; it is still on its way when the
\* client gives up
Fates == {"lost", "answered", "unanswered", "late"}

\* doReplication: nil only for a 200 answer that arrived in time
doReplication(rs, rm, idx, data, fate) ==
    LET resp == setData(rs, rm, idx, data)
        handled == fate \in {"answered", "unanswered"}
    IN [cb |-> IF fate = "answered" /\ resp.code = 200 THEN "ok" ELSE "fail",
        s |-> IF handled THEN resp.s ELSE rs,
        mem |-> IF handled THEN resp.mem ELSE rm,
        sent |-> IF fate = "late" THEN {[idx |-> idx, data |-> data]} ELSE {}]

\* appendData on a master that replicates: the callback runs doReplication
\* with the index writeTo hands it, which is the FreeChunkIdx Write found
appendData(s, m, data, rs, rm, fate) ==
    LET in == getIncomingData(data)
        repl == doReplication(rs, rm, s.header.FreeChunkIdx, data, fate)
        r == Write(s, m, data, repl.cb)
        invoked == CallbackAt(r.log) # {}
    IN IF in.code # 200
       THEN [code |-> in.code, id |-> -1, s |-> s, mem |-> m, log |-> <<>>,
             rs |-> rs, rmem |-> rm, sent |-> {}]
       ELSE [code |-> IF r.err = "" THEN 200 ELSE 500, id |-> r.res,
             s |-> r.s, mem |-> r.mem, log |-> r.log,
             rs |-> IF invoked THEN repl.s ELSE rs,
             rmem |-> IF invoked THEN repl.mem ELSE rm,
             sent |-> IF invoked THEN repl.sent ELSE {}]

\* getData for one id
getData(s, m, idx) ==
    LET r == Read(s, m, idx)
    IN IF r.err # "" THEN [code |-> 500, data |-> <<>>]
       ELSE [code |-> 200, data |-> r.data]

FreshBackend ==
    CreateStorage(ChunkDataSize, NumChunks, TheStorageID, storageVersion)

\* a master and a replica started on two freshly created storages of the
\* same geometry and StorageID
InitRepl ==
    /\ mem = FreshBackend
    /\ st = Open(FreshBackend).s
    /\ rmem = FreshBackend
    /\ rst = Open(FreshBackend).s
    /\ last = NoCall
    /\ written = <<>>
    /\ pure = TRUE
    /\ nextIdx = -1
    /\ failedIdx = -1
    /\ calls = 0
    /\ net = {}
    /\ hosts = <<>>
    /\ rt = NoRouter
    /\ req = NoRequest
    /\ acked = {}
    /\ pinger = NoPinger
    /\ srv = NoServers
    /\ locker = NoLock
    /\ procs = NoProcs

\* POST /api/v1/data/append on the master
AppendAct(data, fate) ==
    /\ calls < MaxCalls
    /\ calls' = calls + 1
    /\ \E r \in {appendData(st, mem, data, rst, rmem, fate)} :
          /\ st' = r.s
          /\ mem' = r.mem
          /\ rst' = r.rs
          /\ rmem' = r.rmem
          /\ net' = net \cup r.sent
          /\ last' = Call("append", data, -1, fate, r.id, IF r.code = 200 THEN "" ELSE "error",
                          r.code, r.log, st.header.FreeChunkIdx)
    /\ UNCHANGED <<written, pure, nextIdx, failedIdx, routerVars, serverVars, concVars>>

\* POST /api/v1/data/set/{idx} reaching the replica after the master gave up
DeliverAct(m) ==
    /\ m \in net
    /\ \E r \in {setData(rst, rmem, m.idx, m.data)} :
          /\ rst' = r.s
          /\ rmem' = r.mem
          /\ last' = Call("set", m.data, m.idx, "ok", r.id, IF r.code = 200 THEN "" ELSE "error",
                          r.code, r.log, rst.header.FreeChunkIdx)
    /\ net' = net \ {m}
    /\ UNCHANGED <<mem, st, written, pure, nextIdx, failedIdx, calls, routerVars, serverVars, concVars>>

\* GET /api/v1/data/get/{idx} on the master or on the replica
GetAct(role, idx) ==
    /\ LET r == IF role = "master" THEN getData(st, mem, idx)
                ELSE getData(rst, rmem, idx)
       IN last' = Call("get", r.data, idx, role, -1, IF r.code = 200 THEN "" ELSE "error",
                       r.code, <<>>, -1)
    /\ UNCHANGED <<mem, st, written, pure, nextIdx, failedIdx, calls>>
    /\ UNCHANGED <<replVars, routerVars, serverVars, concVars>>

NextRepl ==
    \/ \E data \in Payloads, fate \in Fates : AppendAct(data, fate)
    \/ \E m \in net : DeliverAct(m)
    \/ \E role \in {"master", "replica"}, idx \in 0..(NumChunks - 1) : GetAct(role, idx)

SpecRepl == InitRepl /\ [][NextRepl]_vars

\* ----------------------------------------------------------------- router

\* the storage servers the router's configuration names, in pairs
Hosts == {"m1", "r1", "m2", "r2"}
Upstreams == [u1 |-> [master |-> "m1", replica |-> "r1"],
              u2 |-> [master |-> "m2", replica |-> "r2"]]

\* NewRouter fills rt.upstreams by ranging over the map cfg.Upstreams: the
\* order of the pairs is any
UpstreamOrders == {<<"u1", "u2">>, <<"u2", "u1">>}

\* the StorageIDs of the four storage files: two proper pairs, or one
\* StorageID used by both pairs
StorageIDs == {[m1 |-> 7, r1 |-> 7, m2 |-> 8, r2 |-> 8],
               [m1 |-> 7, r1 |-> 7, m2 |-> 7, r2 |-> 7]}

\* what clients send: the instanceID path variable (-1: not an unsigned
\* decimal), the Content-Type, the data
InstanceIDs == {-1, 7, 8, 9}
ContentTypes == {"application/json", "text/plain"}
RouterPayloads == {Ramp(1), Ramp(2)}

\* a request to a storage server: it fails in transport, or the server
\* handles it and answers, or the server handles it and the answer does not
\* arrive within the timeout
PutFates == {"transport", "served", "unanswered"}
\* for a read, additionally a reader that answers 404, with a JSON error body
\* or with a plain text body
GetFates == {"transport", "served", "notfound", "notfound-text"}
PingFates == {"transport", "served"}
\* the storage servers whose info request can fail once the router runs
Flaky == {"m1", "r1"}
\* the client puts, then gets: at most MaxPuts requests to /put, which come first
MaxPuts == 1

EmptyMap == [x \in {} |-> 0]

\* the host a master replicates to: its pair's replica (a master that runs
\* has passed its replication precheck)
replicaOf(h) ==
    Upstreams[CHOOSE u \in DOMAIN Upstreams : Upstreams[u].master = h].replica

\* appInfo, as far as the router reads it
appInfo(hs, h) ==
    [ok |-> TRUE, StorageID |-> hs[h].s.header.StorageID, IsFull |-> IsFull(hs[h].s)]

getAppInfo(hs, h, fate) ==
    IF fate = "transport" THEN [ok |-> FALSE, StorageID |-> 0, IsFull |-> FALSE]
    ELSE appInfo(hs, h)

\* configureUpstreams registering the writer only after the duplicate test
RECURSIVE configureUpstreamsChecked(_, _, _, _, _)
configureUpstreamsChecked(upstreams, infos, writers, readers, outError) ==
    IF upstreams = <<>>
    THEN [writers |-> writers, readers |-> readers, outError |-> outError]
    ELSE LET ucfg == Upstreams[Head(upstreams)]
             rest == Tail(upstreams)
             masterInfo == infos[ucfg.master]
             replInfo == infos[ucfg.replica]
             err == outError \/ ~masterInfo.ok \/ ~replInfo.ok
             instanceID == IF replInfo.ok THEN replInfo.StorageID
                           ELSE IF masterInfo.ok THEN masterInfo.StorageID ELSE 0
         IN IF (~err /\ masterInfo.StorageID # replInfo.StorageID)
               \/ (err /\ instanceID = 0) \/ instanceID \in DOMAIN readers
            THEN configureUpstreamsChecked(rest, infos, writers, readers, TRUE)
            ELSE configureUpstreamsChecked(rest, infos,
                    (instanceID :> [host |-> ucfg.master, isAlive |-> TRUE]) @@ writers,
                    (instanceID :> <<[host |-> ucfg.master, isAlive |-> TRUE],
                                     [host |-> ucfg.replica, isAlive |-> TRUE]>>)
                       @@ readers,
                    err)

\* configureUpstreams: the loop over rt.upstreams.  outError is the function's
\* named result and is never reset between pairs
RECURSIVE configureUpstreams(_, _, _, _, _)
configureUpstreams(upstreams, infos, writers, readers, outError) ==
    IF upstreams = <<>>
    THEN [writers |-> writers, readers |-> readers, outError |-> outError]
    ELSE LET ucfg == Upstreams[Head(upstreams)]
             rest == Tail(upstreams)
             masterInfo == infos[ucfg.master]
             replInfo == infos[ucfg.replica]
             err == outError \/ ~masterInfo.ok \/ ~replInfo.ok
             instanceID == IF replInfo.ok THEN replInfo.StorageID
                           ELSE IF masterInfo.ok THEN masterInfo.StorageID ELSE 0
             writers2 == (instanceID :> [host |-> ucfg.master, isAlive |-> TRUE])
                            @@ writers
             readers2 == (instanceID :> <<[host |-> ucfg.master, isAlive |-> TRUE],
                                          [host |-> ucfg.replica, isAlive |-> TRUE]>>)
                            @@ readers
         IN IF ~err /\ masterInfo.StorageID # replInfo.StorageID
            THEN configureUpstreams(rest, infos, writers, readers, TRUE)
            ELSE IF err /\ instanceID = 0
            THEN configureUpstreams(rest, infos, writers, readers, TRUE)
            ELSE IF instanceID \in DOMAIN readers
            THEN configureUpstreams(rest, infos, writers2, readers, TRUE)
            ELSE configureUpstreams(rest, infos, writers2, readers2, err)

\* Router.Start
Start(panic, upstreams, infos) ==
    LET c == configureUpstreams(upstreams, infos, EmptyMap, EmptyMap, FALSE)
    IN IF c.outError /\ panic
       THEN [started |-> FALSE, err |-> "panic due to upstream failure"]
       ELSE IF DOMAIN c.readers = {} \/ DOMAIN c.writers = {}
       THEN [started |-> FALSE, err |-> "not enough instances to work with"]
       ELSE [started |-> TRUE, writers |-> c.writers, readers |-> c.readers]

\* what pingUpstreams does to a lock or to an isAlive field
LockEv(lock) == [ev |-> "Lock", on |-> lock]
UnlockEv(lock) == [ev |-> "Unlock", on |-> lock]
WriteEv(field, val) == [ev |-> "write", on |-> field, val |-> val]

\* pingWriter storing isAlive on every ping
pingWriterAlways(r, hs, iid, fate) ==
    LET w == r.writers[iid]
        resp == getAppInfo(hs, w.host, fate)
        newAlive == IF ~resp.ok THEN FALSE ELSE ~resp.IsFull
    IN [r |-> [r EXCEPT !.writers[iid].isAlive = newAlive],
        log |-> <<LockEv("writerLock"), WriteEv("writers", newAlive),
                  UnlockEv("writerLock")>>]

\* pingWriter not looking at IsFull
pingWriterIgnoreFull(r, hs, iid, fate) ==
    LET w == r.writers[iid]
        resp == getAppInfo(hs, w.host, fate)
        newAlive == resp.ok
    IN IF newAlive # w.isAlive
       THEN [r |-> [r EXCEPT !.writers[iid].isAlive = newAlive],
             log |-> <<LockEv("writerLock"), WriteEv("writers", newAlive),
                       UnlockEv("writerLock")>>]
       ELSE [r |-> r, log |-> <<>>]

\* one writer's turn in a round of pingUpstreams: the router afterwards and
\* the lock events and stores of the turn, in order
pingWriter(r, hs, iid, fate) ==
    LET w == r.writers[iid]
        resp == getAppInfo(hs, w.host, fate)
        newAlive == IF ~resp.ok THEN FALSE ELSE ~resp.IsFull
    IN IF newAlive # w.isAlive
       THEN [r |-> [r EXCEPT !.writers[iid].isAlive = newAlive],
             log |-> <<LockEv("writerLock"), WriteEv("writers", newAlive),
                       UnlockEv("writerLock")>>]
       ELSE [r |-> r, log |-> <<>>]

\* pingReader treating a full storage as dead, as pingWriter does
pingReaderFull(r, hs, iid, k, fate) ==
    LET rd == r.readers[iid][k]
        resp == getAppInfo(hs, rd.host, fate)
        newAlive == IF ~resp.ok THEN FALSE ELSE ~resp.IsFull
    IN IF newAlive # rd.isAlive
       THEN [r |-> [r EXCEPT !.readers[iid][k].isAlive = newAlive],
             log |-> <<LockEv("readerLock"), WriteEv("readers", newAlive),
                       UnlockEv("readerLock")>>]
       ELSE [r |-> r, log |-> <<>>]

\* one reader's turn in a round of pingUpstreams
pingReader(r, hs, iid, k, fate) ==
    LET rd == r.readers[iid][k]
        resp == getAppInfo(hs, rd.host, fate)
    IN IF resp.ok # rd.isAlive
       THEN [r |-> [r EXCEPT !.readers[iid][k].isAlive = resp.ok],
             log |-> <<LockEv("readerLock"), WriteEv("readers", resp.ok),
                       UnlockEv("readerLock")>>]
       ELSE [r |-> r, log |-> <<>>]

\* a request of a client to the router and what the router did with it so far
\* (sent: the hosts it sent to, in order; lastCode, lastFate: the status of the
\* last upstream answer, 0 for none, and how that upstream request went)
Request(op, pc, data, iid, item, snapshot, dead, retries, sent, status, body) ==
    [op |-> op, pc |-> pc, data |-> data, iid |-> iid, item |-> item,
     snapshot |-> snapshot, dead |-> dead, retries |-> retries, sent |-> sent,
     lastCode |-> 0, lastFate |-> "none", status |-> status, body |-> body]

\* POST /api/v1/data/append sent to host h, where a is what appendData does
\* if the request arrives: the storage servers afterwards and the status the
\* router sees (0: cli.Do returned an error)
postAppend(hs, h, fate, a) ==
    IF fate = "transport" THEN [hosts |-> hs, code |-> 0, id |-> -1]
    ELSE [hosts |-> [hs EXCEPT ![h] = [s |-> a.s, mem |-> a.mem],
                               ![replicaOf(h)] = [s |-> a.rs, mem |-> a.rmem]],
          code |-> IF fate = "unanswered" THEN 0 ELSE a.code, id |-> a.id]

\* GET /api/v1/data/get/{item} sent to a host, where g is what getData
\* answers if the request arrives: status (0: cli.Get returned an error), the
\* kind of body and the data of the item
getUpstream(g, fate) ==
    IF fate = "transport" THEN [code |-> 0, kind |-> "none", data |-> <<>>]
    ELSE IF fate = "notfound" THEN [code |-> 404, kind |-> "error", data |-> <<>>]
    ELSE IF fate = "notfound-text" THEN [code |-> 404, kind |-> "text", data |-> <<>>]
    ELSE IF g.code = 200 THEN [code |-> 200, kind |-> "items", data |-> g.data]
    ELSE [code |-> g.code, kind |-> "error", data |-> <<>>]

\* putData answering 502 when no writer is alive instead of entering its loop
putDataGuarded(r, data, contentType) ==
    LET availableWriters == {[host |-> r.writers[iid].host, storageID |-> iid] :
                                iid \in {i \in DOMAIN r.writers : r.writers[i].isAlive}}
        dead == {r.writers[i].host : i \in {j \in DOMAIN r.writers : ~r.writers[j].isAlive}}
    IN IF contentType # "application/json"
       THEN Request("put", "done", data, -1, -1, {}, {}, 0, <<>>, 400,
                    [error |-> "only application/json body is allowed"])
       ELSE IF availableWriters = {}
       THEN Request("put", "done", data, -1, -1, {}, dead, 0, <<>>, 502,
                    [error |-> "no alive storages available"])
       ELSE Request("put", "loop", data, -1, -1, availableWriters, dead, 3, <<>>, 0, <<>>)

\* putData up to its retry loop
putData(r, data, contentType) ==
    LET availableWriters == {[host |-> r.writers[iid].host, storageID |-> iid] :
                                iid \in {i \in DOMAIN r.writers : r.writers[i].isAlive}}
        dead == {r.writers[i].host : i \in {j \in DOMAIN r.writers : ~r.writers[j].isAlive}}
    IN IF contentType # "application/json"
       THEN Request("put", "done", data, -1, -1, {}, {}, 0, <<>>, 400,
                    [error |-> "only application/json body is allowed"])
       ELSE Request("put", "loop", data, -1, -1, availableWriters, dead, 3, <<>>, 0, <<>>)

\* the rest of an iteration of putData's retry loop, with a 200 answer not
\* ending the loop
putAttemptNoStop(q, writer, fate, resp) ==
    LET q1 == [q EXCEPT !.sent = Append(q.sent, writer.host), !.lastCode = resp.code,
                        !.lastFate = fate]
    IN [q1 EXCEPT !.retries = q.retries - 1,
                  !.pc = IF q.retries - 1 > 0 THEN "loop" ELSE "done",
                  !.status = IF q.retries - 1 > 0 THEN 0 ELSE 500,
                  !.body = IF q.retries - 1 > 0 THEN <<>>
                           ELSE [error |-> "can't write data after 3 retries"]]

\* the rest of an iteration of putData's retry loop, after the POST to the
\* writer rand.Intn picked in availableWriters got the answer resp
putAttempt(q, writer, fate, resp) ==
    LET q1 == [q EXCEPT !.sent = Append(q.sent, writer.host), !.lastCode = resp.code,
                        !.lastFate = fate]
    IN IF resp.code = 200
       THEN [q1 EXCEPT !.pc = "done", !.status = 200,
                       !.body = [instance_id |-> writer.storageID,
                                 item_id |-> resp.id]]
       ELSE [q1 EXCEPT !.retries = q.retries - 1,
                       !.pc = IF q.retries - 1 > 0 THEN "loop" ELSE "done",
                       !.status = IF q.retries - 1 > 0 THEN 0 ELSE 500,
                       !.body = IF q.retries - 1 > 0 THEN <<>>
                                ELSE [error |-> "can't write data after 3 retries"]]

\* getData of the router that proxies without looking at the readers' state
getDataNoRejection(r, iid, item) ==
    Request("get", "loop", <<>>, iid, item,
            IF iid \in DOMAIN r.readers
            THEN [k \in 1..Len(r.readers[iid]) |-> r.readers[iid][k].host]
            ELSE <<"m1", "r1">>,
            {}, 3, <<>>, 0, <<>>)

\* getData of the router up to proxyData
getDataRouter(r, iid, item) ==
    LET readers == r.readers[iid]
        alive == SelectSeq(readers, LAMBDA rd : rd.isAlive)
        aliveReaders == [k \in 1..Len(alive) |-> alive[k].host]
        dead == {readers[k].host : k \in {j \in 1..Len(readers) : ~readers[j].isAlive}}
    IN IF iid < 0
       THEN Request("get", "done", <<>>, iid, item, <<>>, {}, 0, <<>>, 400,
                    [error |-> "invalid instance id"])
       ELSE IF iid \notin DOMAIN r.readers
       THEN Request("get", "done", <<>>, iid, item, <<>>, {}, 0, <<>>, 404,
                    [error |-> "instance not found"])
       ELSE IF Len(aliveReaders) = 0
       THEN Request("get", "done", <<>>, iid, item, <<>>, dead, 0, <<>>, 502,
                    [error |-> "no alive storages available"])
       ELSE Request("get", "loop", <<>>, iid, item, aliveReaders, dead, 3, <<>>, 0, <<>>)

\* the body of an upstream answer unmarshalled into a DataListResponse and
\* answered to the client: an error object has no items
listResponse(q, resp) ==
    IF resp.kind = "text"
    THEN [q EXCEPT !.pc = "done", !.status = 500,
                   !.body = [error |-> "error unmarshalling data"]]
    ELSE [q EXCEPT !.pc = "done", !.status = 200,
                   !.body = IF resp.kind = "items"
                            THEN [items |-> <<[id |-> q.item, data |-> resp.data]>>]
                            ELSE [items |-> <<>>]]

\* proxyData that takes its single-host branch whatever the number of hosts
proxyAttemptSingle(q, host, fate, resp) ==
    LET q1 == [q EXCEPT !.sent = Append(q.sent, host), !.lastCode = resp.code,
                        !.lastFate = fate]
    IN IF resp.code = 0
       THEN [q1 EXCEPT !.pc = "done", !.status = 502,
                       !.body = [error |-> "error getting data"]]
       ELSE listResponse(q1, resp)

\* proxyData after the answer resp to its GET: the rest of the single-host
\* branch when one reader is alive, of one iteration of the retry loop
\* otherwise
proxyAttempt(q, host, fate, resp) ==
    LET q1 == [q EXCEPT !.sent = Append(q.sent, host), !.lastCode = resp.code,
                        !.lastFate = fate]
        retry == [q1 EXCEPT !.retries = q.retries - 1,
                            !.pc = IF q.retries - 1 > 0 THEN "loop" ELSE "done",
                            !.status = IF q.retries - 1 > 0 THEN 0 ELSE 502,
                            !.body = IF q.retries - 1 > 0 THEN <<>>
                                     ELSE [error |-> "can't get data: no more retries left"]]
    IN IF Len(q.snapshot) = 1
       THEN \* no status check on this path
            IF resp.code = 0
            THEN [q1 EXCEPT !.pc = "done", !.status = 502,
                            !.body = [error |-> "error getting data"]]
            ELSE listResponse(q1, resp)
       ELSE IF resp.code = 0 THEN retry
       ELSE IF resp.code # 200
       THEN IF resp.kind = "text" THEN retry
            ELSE IF resp.code = 404
            THEN [q1 EXCEPT !.pc = "done", !.status = 404,
                            !.body = [error |-> "not found"]]
            ELSE retry
       ELSE listResponse(q1, resp)

\* four storage servers on freshly created files; the router not yet started
InitRouter ==
    /\ \E ids \in StorageIDs :
          hosts = [h \in Hosts |->
                     LET m == CreateStorage(ChunkDataSize, NumChunks, ids[h],
                                            storageVersion)
                     IN [s |-> Open(m).s, mem |-> m]]
    /\ rt = NoRouter
    /\ req = NoRequest
    /\ acked = {}
    /\ pinger = NoPinger
    /\ srv = NoServers
    /\ locker = NoLock
    /\ procs = NoProcs
    /\ calls = 0
    /\ mem = <<>>
    /\ st = NoStorage
    /\ last = NoCall
    /\ written = <<>>
    /\ pure = TRUE
    /\ nextIdx = -1
    /\ failedIdx = -1
    /\ rmem = <<>>
    /\ rst = NoStorage
    /\ net = {}

\* which storage servers answer the info requests of configureUpstreams: all,
\* all but one pair's master, replica, or both
Reaches == {[h \in Hosts |-> h \notin down] : down \in {{}, {"m2"}, {"r2"}, {"m2", "r2"}}}

\* Router.Start: every info request of configureUpstreams succeeds or fails
StartAct(panic, upstreams, reach) ==
    /\ rt = NoRouter
    /\ \E infos \in {[h \in Hosts |-> getAppInfo(hosts, h,
                          IF reach[h] THEN "served" ELSE "transport")]} :
          rt' = Start(panic, upstreams, infos)
    /\ UNCHANGED <<hosts, req, acked, pinger, engineVars, replVars, serverVars, concVars>>

PingWriterAct(iid, fate) ==
    /\ rt.started
    /\ iid \in DOMAIN rt.writers
    /\ fate = "transport" => rt.writers[iid].host \in Flaky
    /\ rt' = pingWriter(rt, hosts, iid, fate).r
    /\ UNCHANGED <<hosts, req, acked, pinger, engineVars, replVars, serverVars, concVars>>

PingReaderAct(iid, k, fate) ==
    /\ rt.started
    /\ iid \in DOMAIN rt.readers
    /\ k \in 1..Len(rt.readers[iid])
    /\ fate = "transport" => rt.readers[iid][k].host \in Flaky
    /\ rt' = pingReader(rt, hosts, iid, k, fate).r
    /\ UNCHANGED <<hosts, req, acked, pinger, engineVars, replVars, serverVars, concVars>>

\* POST /put arrives: the handler runs up to its retry loop
PutAct(data, contentType) ==
    /\ rt.started
    /\ ~pinger.stopped
    /\ req.pc = "done"
    /\ calls < MaxPuts
    /\ calls' = calls + 1
    /\ req' = putData(rt, data, contentType)
    /\ UNCHANGED <<hosts, rt, acked, pinger>>
    /\ UNCHANGED <<mem, st, last, written, pure, nextIdx, failedIdx, replVars>>
    /\ UNCHANGED <<serverVars, concVars>>

\* one iteration of putData's loop; with no writer to pick, rand.Intn(0)
\* panics and the handler ends without an answer (status 0)
PutAttemptAct ==
    /\ req.op = "put"
    /\ req.pc = "loop"
    /\ \/ /\ req.snapshot = {}
          /\ req' = [req EXCEPT !.pc = "done", !.status = 0]
          /\ UNCHANGED <<hosts, acked>>
       \/ \E writer \in req.snapshot, fate \in PutFates :
             \E a \in {appendData(hosts[writer.host].s, hosts[writer.host].mem, req.data,
                                   hosts[replicaOf(writer.host)].s,
                                   hosts[replicaOf(writer.host)].mem, "answered")} :
                \E resp \in {postAppend(hosts, writer.host, fate, a)} :
                   \E q \in {putAttempt(req, writer, fate, resp)} :
                      /\ req' = q
                      /\ hosts' = resp.hosts
                      /\ acked' = IF q.status = 200
                                  THEN acked \cup {[instance_id |-> q.body.instance_id,
                                                    item_id |-> q.body.item_id,
                                                    data |-> req.data]}
                                  ELSE acked
    /\ UNCHANGED <<rt, pinger, engineVars, replVars, serverVars, concVars>>

\* GET /get/{iid}/{item} arrives: the handler runs up to proxyData
GetRouterAct(iid, item) ==
    /\ rt.started
    /\ ~pinger.stopped
    /\ req.pc = "done"
    /\ calls < MaxCalls
    /\ calls' = calls + 1
    /\ req' = getDataRouter(rt, iid, item)
    /\ UNCHANGED <<hosts, rt, acked, pinger>>
    /\ UNCHANGED <<mem, st, last, written, pure, nextIdx, failedIdx, replVars>>
    /\ UNCHANGED <<serverVars, concVars>>

\* proxyData's GET, or one iteration of its loop
ProxyAttemptAct ==
    /\ req.op = "get"
    /\ req.pc = "loop"
    /\ \E k \in 1..Len(req.snapshot), fate \in GetFates :
          \E g \in {getData(hosts[req.snapshot[k]].s, hosts[req.snapshot[k]].mem,
                             req.item)} :
             \E resp \in {getUpstream(g, fate)} :
                req' = proxyAttempt(req, req.snapshot[k], fate, resp)
    /\ UNCHANGED <<hosts, rt, acked, pinger, engineVars, replVars, serverVars, concVars>>

NextRouter ==
    \/ \E panic \in BOOLEAN, upstreams \in UpstreamOrders, reach \in Reaches :
          StartAct(panic, upstreams, reach)
    \/ \E iid \in InstanceIDs, fate \in PingFates : PingWriterAct(iid, fate)
    \/ \E iid \in InstanceIDs, k \in 1..2, fate \in PingFates : PingReaderAct(iid, k, fate)
    \/ \E data \in RouterPayloads, contentType \in ContentTypes : PutAct(data, contentType)
    \/ PutAttemptAct
    \/ \E iid \in InstanceIDs, item \in 0..(NumChunks - 1) : GetRouterAct(iid, item)
    \/ ProxyAttemptAct

SpecRouter == InitRouter /\ [][NextRouter]_vars

\* ------------------------------------------------- router configuration

\* any assignment of two StorageIDs to the four storage files, and any
\* outcome of the four info requests of configureUpstreams
AnyStorageIDs == [Hosts -> {7, 8}]
AnyReaches == [Hosts -> BOOLEAN]

\* the info answers configureUpstreams gets when the hosts of reach answer
infosOf(hs, reach) ==
    [h \in Hosts |-> getAppInfo(hs, h, IF reach[h] THEN "served" ELSE "transport")]

\* four storage servers on files with any StorageIDs; the router not started
InitConfig ==
    /\ \E ids \in AnyStorageIDs :
          hosts = [h \in Hosts |->
                     LET m == CreateStorage(ChunkDataSize, NumChunks, ids[h],
                                            storageVersion)
                     IN [s |-> Open(m).s, mem |-> m]]
    /\ rt = NoRouter
    /\ req = NoRequest
    /\ acked = {}
    /\ pinger = NoPinger
    /\ srv = NoServers
    /\ locker = NoLock
    /\ procs = NoProcs
    /\ calls = 0
    /\ mem = <<>>
    /\ st = NoStorage
    /\ last = NoCall
    /\ written = <<>>
    /\ pure = TRUE
    /\ nextIdx = -1
    /\ failedIdx = -1
    /\ rmem = <<>>
    /\ rst = NoStorage
    /\ net = {}

NextConfig ==
    \E panic \in BOOLEAN, upstreams \in UpstreamOrders, reach \in AnyReaches :
        StartAct(panic, upstreams, reach)

SpecConfig == InitConfig /\ [][NextConfig]_vars

\* ------------------------------------------------------------ router pinger

\* the number of chunks of the storages behind the pinged router
PingerChunks == 1

\* the router started on the pair (m1, r1) of freshly created storages; the
\* pair (m2, r2) did not answer configureUpstreams and is not registered;
\* pingUpstreams waits in its select
InitPinger ==
    /\ hosts = [h \in Hosts |->
                  LET m == CreateStorage(ChunkDataSize, PingerChunks,
                                         IF h \in {"m1", "r1"} THEN 7 ELSE 8,
                                         storageVersion)
                  IN [s |-> Open(m).s, mem |-> m]]
    /\ rt = Start(FALSE, <<"u1", "u2">>,
                  [h \in Hosts |-> getAppInfo(hosts, h,
                      IF h \in {"m1", "r1"} THEN "served" ELSE "transport")])
    /\ pinger = [NoPinger EXCEPT !.pc = "select"]
    /\ req = NoRequest
    /\ acked = {}
    /\ srv = NoServers
    /\ locker = NoLock
    /\ procs = NoProcs
    /\ calls = 0
    /\ mem = <<>>
    /\ st = NoStorage
    /\ last = NoCall
    /\ written = <<>>
    /\ pure = TRUE
    /\ nextIdx = -1
    /\ failedIdx = -1
    /\ rmem = <<>>
    /\ rst = NoStorage
    /\ net = {}

\* how an info request to host h goes now
pingFate(h) == IF h \in pinger.down THEN "transport" ELSE "served"

\* `case <-t`: the timer of the select fires and a round begins, over the
\* writers and then over the readers, each map in any order
TickAct ==
    /\ pinger.pc = "select"
    /\ pinger' = [pinger EXCEPT !.pc = "writers",
                                !.wtodo = DOMAIN rt.writers,
                                !.rtodo = {<<iid, k>> \in (DOMAIN rt.readers) \X (1..2) :
                                              k <= Len(rt.readers[iid])}]
    /\ UNCHANGED <<hosts, rt, req, acked, engineVars, replVars, serverVars, concVars>>

\* the round's turn of writer iid
PingerWriterAct(iid) ==
    /\ pinger.pc = "writers"
    /\ iid \in pinger.wtodo
    /\ \E p \in {pingWriter(rt, hosts, iid, pingFate(rt.writers[iid].host))} :
          /\ rt' = p.r
          /\ pinger' = [pinger EXCEPT !.wtodo = pinger.wtodo \ {iid},
                                      !.log = p.log,
                                      !.pc = IF pinger.wtodo = {iid} THEN "readers"
                                             ELSE "writers"]
    /\ UNCHANGED <<hosts, req, acked, engineVars, replVars, serverVars, concVars>>

\* the round's turn of the k-th reader of shard iid; after the last one
\* the loop is back at its select
PingerReaderAct(iid, k) ==
    /\ pinger.pc = "readers"
    /\ <<iid, k>> \in pinger.rtodo
    /\ \E p \in {pingReader(rt, hosts, iid, k, pingFate(rt.readers[iid][k].host))} :
          /\ rt' = p.r
          /\ pinger' = [pinger EXCEPT !.rtodo = pinger.rtodo \ {<<iid, k>>},
                                      !.log = p.log,
                                      !.pc = IF pinger.rtodo = {<<iid, k>>} THEN "select"
                                             ELSE "readers"]
    /\ UNCHANGED <<hosts, req, acked, engineVars, replVars, serverVars, concVars>>

\* Router.Stop: the send on the unbuffered pingerStop completes when the
\* pinger receives it in its select, whose `break` leaves the select and not
\* the enclosing for; then the HTTP server is shut down
StopAct ==
    /\ rt.started
    /\ ~pinger.stopped
    /\ pinger.pc = "select"
    /\ pinger' = [pinger EXCEPT !.stopped = TRUE]
    /\ UNCHANGED <<hosts, rt, req, acked, engineVars, replVars, serverVars, concVars>>

\* storage server h stops or resumes answering info requests
ReachAct(h) ==
    /\ pinger.pc # "none"
    /\ pinger' = [pinger EXCEPT !.down = IF h \in pinger.down THEN pinger.down \ {h}
                                         ELSE pinger.down \cup {h}]
    /\ UNCHANGED <<hosts, rt, req, acked, engineVars, replVars, serverVars, concVars>>

\* a step of the pingUpstreams goroutine
PingerStep ==
    \/ TickAct
    \/ \E iid \in InstanceIDs : PingerWriterAct(iid)
    \/ \E iid \in InstanceIDs, k \in 1..2 : PingerReaderAct(iid, k)

NextPinger ==
    \/ TickAct
    \/ \E iid \in InstanceIDs : PingerWriterAct(iid)
    \/ \E iid \in InstanceIDs, k \in 1..2 : PingerReaderAct(iid, k)
    \/ StopAct
    \/ \E h \in Flaky : ReachAct(h)
    \/ PutAct(Ramp(1), "application/json")
    \/ PutAttemptAct

SpecPinger == InitPinger /\ [][NextPinger]_vars

\* the pinger goroutine keeps running: its timer fires and every info
\* request returns, with an answer or with the client's timeout
SpecPingerFair == SpecPinger /\ WF_vars(PingerStep)

\* ----------------------------------------------------------- web server

Methods == {"GET", "POST"}
Paths == {"info", "get", "append", "set"}

\* the files the second server can be started on: smaller, equal or larger
\* than the first server's, with its StorageID or another
TargetBackends ==
    {CreateStorage(c, n, id, storageVersion) :
        c \in {ChunkDataSize - 1, ChunkDataSize, ChunkDataSize + 1},
        n \in {NumChunks - 1, NumChunks, NumChunks + 1},
        id \in {TheStorageID, <<105>>}}

\* the routes Start registers whatever the role
RoutesBoth(role) ==
    {[path |-> "info", methods |-> Methods],
     [path |-> "get", methods |-> {"GET"}],
     [path |-> "append", methods |-> {"POST"}],
     [path |-> "set", methods |-> {"POST"}]}

\* the routes Start registers on its mux router (info: any method)
Routes(role) ==
    {[path |-> "info", methods |-> Methods],
     [path |-> "get", methods |-> {"GET"}]}
    \cup (IF role = "master"
          THEN {[path |-> "append", methods |-> {"POST"}]}
          ELSE {[path |-> "set", methods |-> {"POST"}]})

\* appInfo of a storage server
infoResponse(role, s) ==
    [ok |-> TRUE, ServerType |-> role, StorageID |-> s.header.StorageID,
     ChunkDataSize |-> GetChunkDataSize(s), NumChunks |-> s.header.NumChunks,
     IsFull |-> IsFull(s)]

\* checkReplication without the comparison of the StorageIDs
checkReplicationNoID(s, info) ==
    IF ~info.ok THEN "error getting server info from replica"
    ELSE IF info.ServerType # "replica" THEN "invalid server type on replica"
    ELSE IF info.ChunkDataSize < GetChunkDataSize(s)
    THEN "insufficient chunk data size on replica"
    ELSE IF info.NumChunks < s.header.NumChunks
    THEN "insufficient replica storage size"
    ELSE ""

\* checkReplication: "" for nil; info is the answer to GET info, if any
checkReplication(s, info) ==
    IF ~info.ok THEN "error getting server info from replica"
    ELSE IF info.ServerType # "replica" THEN "invalid server type on replica"
    ELSE IF info.ChunkDataSize < GetChunkDataSize(s)
    THEN "insufficient chunk data size on replica"
    ELSE IF info.NumChunks < s.header.NumChunks
    THEN "insufficient replica storage size"
    ELSE IF info.StorageID # s.header.StorageID
    THEN "master and replica's storage IDs don't match"
    ELSE ""

\* NewServer and Server.Start: the Server afterwards
ServerStart(isMaster, replicateTo, s, info) ==
    LET role == IF isMaster THEN "master" ELSE "replica"
        replicate == replicateTo # ""
        err == IF replicate THEN checkReplication(s, info) ELSE ""
    IN [started |-> err = "", role |-> role, replicate |-> replicate,
        info |-> info, err |-> err,
        routes |-> IF err = "" THEN Routes(role) ELSE {}]

\* what the mux router does with a request: 0 stands for calling the
\* handler; a known path with another method is 405 (404 with an old mux)
muxCodes(routes, method, path) ==
    IF \E r \in routes : r.path = path /\ method \in r.methods THEN {0}
    ELSE IF \E r \in routes : r.path = path THEN {404, 405}
    ELSE {404}

\* the handlers appInfo, getData, appendData, setData on the engine (s, m):
\* the engine afterwards and the error of the engine call, where callback is
\* what the replication callback returns if the engine invokes it
handle(path, s, m, idx, data, callback) ==
    IF path = "info" THEN [s |-> s, mem |-> m, err |-> "", log |-> <<>>]
    ELSE IF path = "get"
    THEN [s |-> s, mem |-> m, err |-> Read(s, m, idx).err, log |-> <<>>]
    ELSE IF getIncomingData(data).code # 200
    THEN [s |-> s, mem |-> m, err |-> "bad request", log |-> <<>>]
    ELSE IF path = "append" THEN Write(s, m, data, callback)
    ELSE WriteTo(s, m, data, idx, callback)

\* the status the handler's answer carries
statusOf(data, path, err) ==
    IF path \in {"append", "set"} /\ getIncomingData(data).code # 200
    THEN getIncomingData(data).code
    ELSE IF err = "" THEN 200 ELSE 500

\* two servers built, none started: a on a fresh file, b (the only server a
\* can be told to replicate to) on any of the target files
InitServer ==
    /\ mem = FreshBackend
    /\ st = Open(FreshBackend).s
    /\ \E m \in TargetBackends : rmem = m /\ rst = Open(m).s
    /\ last = NoCall
    /\ written = <<>>
    /\ pure = TRUE
    /\ nextIdx = -1
    /\ failedIdx = -1
    /\ calls = 0
    /\ net = {}
    /\ hosts = <<>>
    /\ rt = NoRouter
    /\ req = NoRequest
    /\ acked = {}
    /\ pinger = NoPinger
    /\ srv = NoServers
    /\ locker = NoLock
    /\ procs = NoProcs

\* Server.Start of a or b; b answers a's GET info if it runs and the request
\* gets through
ServerStartAct(who, isMaster, replicate, fate) ==
    /\ srv[who] = NotStarted
    /\ who = "b" => ~replicate
    /\ \E info \in {IF replicate /\ fate = "served" /\ srv["b"].started
                    THEN infoResponse(srv["b"].role, rst)
                    ELSE [ok |-> FALSE]} :
          srv' = [srv EXCEPT ![who] =
                     ServerStart(isMaster, IF replicate THEN "b" ELSE "",
                                 IF who = "a" THEN st ELSE rst, info)]
    /\ UNCHANGED <<engineVars, replVars, routerVars, concVars>>

\* a request to a started server.  A handler of a that writes passes the
\* engine a callback that runs doReplication against b if a replicates
ServerRequestAct(who, method, path, idx, data, fate) ==
    /\ srv[who].started
    /\ calls < MaxCalls
    /\ calls' = calls + 1
    \* the parts of the request its path has: {id}, a body
    /\ idx >= 0 <=> path \in {"get", "set"}
    /\ data # <<>> <=> path \in {"append", "set"}
    /\ fate = "lost" => (srv[who].replicate /\ path \in {"append", "set"})
    /\ \E code \in muxCodes(srv[who].routes, method, path) :
          IF code # 0
          THEN /\ req' = [op |-> path, pc |-> "done", who |-> who, method |-> method,
                          idx |-> idx, data |-> data, status |-> code]
               /\ UNCHANGED <<st, mem, rst, rmem>>
          ELSE IF who = "a"
          THEN \E repl \in {IF srv[who].replicate /\ path \in {"append", "set"}
                            THEN doReplication(rst, rmem,
                                    IF path = "append" THEN st.header.FreeChunkIdx
                                    ELSE idx, data, fate)
                            ELSE [cb |-> "ok", s |-> rst, mem |-> rmem, sent |-> {}]} :
                  \E h \in {handle(path, st, mem, idx, data, repl.cb)} :
                     /\ st' = h.s
                     /\ mem' = h.mem
                     /\ rst' = IF CallbackAt(h.log) # {} THEN repl.s ELSE rst
                     /\ rmem' = IF CallbackAt(h.log) # {} THEN repl.mem ELSE rmem
                     /\ req' = [op |-> path, pc |-> "done", who |-> who,
                                method |-> method, idx |-> idx, data |-> data,
                                status |-> statusOf(data, path, h.err)]
          ELSE \E h \in {handle(path, rst, rmem, idx, data, "ok")} :
                  /\ rst' = h.s
                  /\ rmem' = h.mem
                  /\ req' = [op |-> path, pc |-> "done", who |-> who,
                             method |-> method, idx |-> idx, data |-> data,
                             status |-> statusOf(data, path, h.err)]
                  /\ UNCHANGED <<st, mem>>
    /\ UNCHANGED <<last, written, pure, nextIdx, failedIdx, net>>
    /\ UNCHANGED <<hosts, rt, acked, pinger, serverVars, concVars>>

NextServer ==
    \/ \E who \in {"a", "b"}, isMaster \in BOOLEAN, replicate \in BOOLEAN,
          fate \in {"served", "transport"} :
          ServerStartAct(who, isMaster, replicate, fate)
    \/ \E who \in {"a", "b"}, method \in Methods, path \in Paths, idx \in -1..1,
          data \in RouterPayloads \cup {<<>>}, fate \in {"answered", "lost"} :
          ServerRequestAct(who, method, path, idx, data, fate)

SpecServer == InitServer /\ [][NextServer]_vars

\* ------------------------------------------------- concurrent callers

\* the goroutines that call the engine
NumProcs == 2
Procs == 1..NumProcs

\* what they pass: payloads of no, one and two chunks; a callback that
\* succeeds or fails; for WriteTo and Read an index
ConcPayloads == {Ramp(0), Ramp(1), Ramp(ChunkDataSize + 1)}
ConcOps == {"Write", "WriteTo", "Read", "Iter", "IsFull"}

\* a goroutine that is in no call (pc "idle"); at, free: the start index
\* WriteTo chose and the FreeChunkIdx it is going to store; seen: the number
\* of committed records when a Read ran; ticket: when its Lock call returned
IdleProc == [op |-> "none", pc |-> "idle", data |-> <<>>, idx |-> -1, cb |-> "nil",
             at |-> -1, free |-> -1, res |-> -1, err |-> "", out |-> <<>>,
             seen |-> 0, ticket |-> 0]

\* the lock that lets a read in while a writer holds it
CanRLockDuringWrite(l) == l.pending = {}

\* sync.RWMutex: Lock returns when nobody holds the lock; a Lock call that
\* waits keeps new RLock calls waiting
CanLock(l) == l.w = 0 /\ l.r = {}
CanRLock(l) == l.w = 0 /\ l.pending = {}

InitConc ==
    /\ mem = FreshBackend
    /\ st = Open(FreshBackend).s
    /\ procs = [p \in Procs |-> IdleProc]
    /\ locker = NoLock
    /\ last = NoCall
    /\ written = <<>>
    /\ pure = TRUE
    /\ nextIdx = -1
    /\ failedIdx = -1
    /\ calls = 0
    /\ rmem = <<>>
    /\ rst = NoStorage
    /\ net = {}
    /\ hosts = <<>>
    /\ rt = NoRouter
    /\ req = NoRequest
    /\ acked = {}
    /\ pinger = NoPinger
    /\ srv = NoServers

\* a goroutine calls Write or WriteTo: the data is compressed and Lock is
\* called
BeginWriteAct(p, op, data, idx, callback) ==
    /\ procs[p].pc \in {"idle", "done"}
    /\ calls < MaxCalls
    /\ calls' = calls + 1
    /\ op \in {"Write", "WriteTo"}
    /\ idx < 0 <=> op = "Write"
    /\ procs' = [procs EXCEPT ![p] = [IdleProc EXCEPT !.op = op, !.pc = "waiting",
                                        !.data = data, !.idx = idx, !.cb = callback]]
    /\ locker' = [locker EXCEPT !.pending = @ \cup {p}]
    /\ UNCHANGED <<mem, st, last, written, pure, nextIdx, failedIdx>>
    /\ UNCHANGED <<replVars, routerVars, serverVars>>

\* Lock returns
LockAct(p) ==
    /\ procs[p].pc = "waiting"
    /\ CanLock(locker)
    /\ locker' = [locker EXCEPT !.w = p, !.pending = @ \ {p}, !.seq = @ + 1]
    /\ procs' = [procs EXCEPT ![p].pc = "chunks", ![p].ticket = locker.seq + 1]
    /\ UNCHANGED <<engineVars, replVars, routerVars, serverVars>>

\* WriteTo under the lock up to the callback: idx is chosen and writeTo's
\* loop writes the chunks
WriteChunksAct(p) ==
    /\ procs[p].pc = "chunks"
    /\ \E r \in {WriteTo(st, mem, procs[p].data, procs[p].idx, procs[p].cb)} :
          \E w \in {writeChunks(st, mem, EffectiveBuffer(procs[p].data).buf,
                                IF procs[p].idx < 0 THEN st.header.FreeChunkIdx
                                ELSE procs[p].idx,
                                EffectiveBuffer(procs[p].data).gzipped, <<>>)} :
             /\ mem' = w.mem
             /\ procs' = [procs EXCEPT ![p].pc = "commit",
                                       ![p].at = IF procs[p].idx < 0
                                                 THEN st.header.FreeChunkIdx
                                                 ELSE procs[p].idx,
                                       ![p].free = r.s.header.FreeChunkIdx,
                                       ![p].res = r.res, ![p].err = r.err]
    /\ UNCHANGED <<st, last, written, pure, nextIdx, failedIdx, calls, locker>>
    /\ UNCHANGED <<replVars, routerVars, serverVars>>

\* the rest of writeTo: the callback, FreeChunkIdx and the header if the call
\* did not fail; WriteTo returns and its deferred Unlock runs
CommitAct(p) ==
    /\ procs[p].pc = "commit"
    /\ IF procs[p].err = ""
       THEN /\ st' = [st EXCEPT !.header.FreeChunkIdx = procs[p].free]
            /\ mem' = writeHeader(st', mem)
            /\ written' = Append(written, <<procs[p].at, procs[p].data>>)
       ELSE UNCHANGED <<st, mem, written>>
    /\ procs' = [procs EXCEPT ![p].pc = "done"]
    /\ locker' = [locker EXCEPT !.w = 0]
    /\ UNCHANGED <<last, pure, nextIdx, failedIdx, calls>>
    /\ UNCHANGED <<replVars, routerVars, serverVars>>

\* a goroutine calls Read, Iter or IsFull
BeginReadAct(p, op, idx) ==
    /\ procs[p].pc \in {"idle", "done"}
    /\ op \in {"Read", "Iter", "IsFull"}
    /\ idx < 0 <=> op \in {"Iter", "IsFull"}
    /\ procs' = [procs EXCEPT ![p] = [IdleProc EXCEPT !.op = op, !.pc = "rlock",
                                        !.idx = idx]]
    /\ UNCHANGED <<engineVars, replVars, routerVars, serverVars, locker>>

\* Read: readRaw takes the read lock, reads and releases it
ReadBodyAct(p) ==
    /\ procs[p].op = "Read"
    /\ procs[p].pc = "rlock"
    /\ CanRLock(locker)
    /\ \E r \in {Read(st, mem, procs[p].idx)} :
          procs' = [procs EXCEPT ![p].pc = "done", ![p].err = r.err,
                                 ![p].out = r.data, ![p].seen = Len(written)]
    /\ UNCHANGED <<engineVars, replVars, routerVars, serverVars, locker>>

\* IsFull takes the read lock, compares and releases it (res: 1 for true)
IsFullAct(p) ==
    /\ procs[p].op = "IsFull"
    /\ procs[p].pc = "rlock"
    /\ CanRLock(locker)
    /\ procs' = [procs EXCEPT ![p].pc = "done",
                              ![p].res = IF IsFull(st) THEN 1 ELSE 0]
    /\ UNCHANGED <<engineVars, replVars, routerVars, serverVars, locker>>

\* Iter takes the read lock
IterLockAct(p) ==
    /\ procs[p].op = "Iter"
    /\ procs[p].pc = "rlock"
    /\ CanRLock(locker)
    /\ locker' = [locker EXCEPT !.r = @ \cup {p}]
    /\ procs' = [procs EXCEPT ![p].pc = "iter", ![p].at = 0]
    /\ UNCHANGED <<engineVars, replVars, routerVars, serverVars>>

\* one round of Iter's loop: it ends and the read lock is released, or
\* readRaw takes the read lock a second time and reads the record at idx
IterStepAct(p) ==
    /\ procs[p].pc = "iter"
    /\ IF ~(procs[p].at < st.header.FreeChunkIdx)
       THEN /\ procs' = [procs EXCEPT ![p].pc = "done"]
            /\ locker' = [locker EXCEPT !.r = @ \ {p}]
       ELSE /\ CanRLock(locker)
            /\ \E r \in {readRaw(st, mem, procs[p].at)} :
                  \E d \in {IF r.err # "" THEN [err |-> r.err, data |-> <<>>]
                             ELSE IF r.gzipped THEN unzip(r.buf)
                             ELSE [err |-> "", data |-> r.buf]} :
                     IF d.err # ""
                     THEN /\ procs' = [procs EXCEPT ![p].pc = "done", ![p].err = d.err]
                          /\ locker' = [locker EXCEPT !.r = @ \ {p}]
                     ELSE /\ procs' = [procs EXCEPT
                                         ![p].out = Append(@, <<procs[p].at, d.data>>),
                                         ![p].at = @ + r.chunkCount]
                          /\ UNCHANGED locker
    /\ UNCHANGED <<engineVars, replVars, routerVars, serverVars>>

NextConc ==
    \/ \E p \in Procs, op \in ConcOps, data \in ConcPayloads, idx \in -1..1,
          callback \in Callbacks : BeginWriteAct(p, op, data, idx, callback)
    \/ \E p \in Procs : LockAct(p)
    \/ \E p \in Procs : WriteChunksAct(p)
    \/ \E p \in Procs : CommitAct(p)
    \/ \E p \in Procs, op \in ConcOps, idx \in -1..(NumChunks - 1) :
          BeginReadAct(p, op, idx)
    \/ \E p \in Procs : ReadBodyAct(p)
    \/ \E p \in Procs : IsFullAct(p)
    \/ \E p \in Procs : IterLockAct(p)
    \/ \E p \in Procs : IterStepAct(p)

SpecConc == InitConc /\ [][NextConc]_vars

\* ------------------------------------------------- JSON response helper

\* the status codes the handlers of the router put into an HTTPError
ErrorCodes == {400, 404, 500, 502}
\* the messages of their errors
Messages == {"only application/json body is allowed", "error reading body",
             "error creating post request", "can't write data after 3 retries",
             "invalid instance id", "no alive storages available",
             "instance not found", "error getting data",
             "error reading response body", "can't get data: no more retries left",
             "error unmarshalling data", "unexpected EOF"}

defaultErrorHTTPCode == 400

\* what a DataHandler returns: data that json.Marshal encodes or rejects, an
\* HTTPError, or an error of another type
HandlerResults ==
    {[kind |-> "data", ok |-> ok] : ok \in BOOLEAN}
    \cup {[kind |-> "HTTPError", Code |-> c, Message |-> m] :
             c \in ErrorCodes, m \in Messages}
    \cup {[kind |-> "error", Message |-> m] : m \in Messages}

\* WriteJSONError: the status written and the body, a JSON object
WriteJSONError(e) ==
    LET he == IF e.kind = "HTTPError" THEN e
              ELSE [kind |-> "HTTPError", Code |-> defaultErrorHTTPCode,
                    Message |-> e.Message]
    IN [status |-> he.Code, body |-> [error |-> he.Message]]

\* the http.HandlerFunc JSONResponse makes of a handler that returns result
JSONResponse(result) ==
    IF result.kind # "data" THEN WriteJSONError(result)
    ELSE IF ~result.ok
    THEN [status |-> 500,
          body |-> [error |-> "internal server error / marshalling error"]]
    ELSE [status |-> 200, body |-> [data |-> "json"]]

\* a process that serves requests through the helper and nothing else
InitHelper ==
    /\ mem = <<>>
    /\ st = NoStorage
    /\ last = NoCall
    /\ written = <<>>
    /\ pure = TRUE
    /\ nextIdx = -1
    /\ failedIdx = -1
    /\ calls = 0
    /\ rmem = <<>>
    /\ rst = NoStorage
    /\ net = {}
    /\ hosts = <<>>
    /\ rt = NoRouter
    /\ req = NoRequest
    /\ acked = {}
    /\ pinger = NoPinger
    /\ srv = NoServers
    /\ locker = NoLock
    /\ procs = NoProcs

\* a request whose handler returns result is answered
JSONResponseAct(result) ==
    /\ calls < MaxCalls
    /\ calls' = calls + 1
    /\ \E resp \in {JSONResponse(result)} :
          req' = [op |-> "json", pc |-> "done", result |-> result,
                  status |-> resp.status, body |-> resp.body]
    /\ UNCHANGED <<mem, st, last, written, pure, nextIdx, failedIdx>>
    /\ UNCHANGED <<replVars, hosts, rt, acked, pinger, serverVars, concVars>>

NextHelper == \E result \in HandlerResults : JSONResponseAct(result)

SpecHelper == InitHelper /\ [][NextHelper]_vars

\* -------------------------------------------------------- storage creation

\* values of rand.Uint64(): any 64-bit value, zero included
RandUint64s == {0, 1, 2, 7, 8}
\* the storageID argument: 0 asks for a generated StorageID
StorageIDArgs == {0, 7, 8}

\* CreateStorage from its entry: the StorageID is the argument, or the value
\* random of rand.Uint64() when the argument is 0; the file is written with
\* it and it is returned
CreateStorageRand(chunkDataSize, numChunks, storageID, random) ==
    LET id == IF storageID = 0 THEN random ELSE storageID
    IN [id |-> id, data |-> CreateStorage(chunkDataSize, numChunks, id, storageVersion)]

\* no backend file yet
InitCreate ==
    /\ mem = <<>>
    /\ st = NoStorage
    /\ last = NoCall
    /\ written = <<>>
    /\ pure = TRUE
    /\ nextIdx = -1
    /\ failedIdx = -1
    /\ calls = 0
    /\ rmem = <<>>
    /\ rst = NoStorage
    /\ net = {}
    /\ hosts = <<>>
    /\ rt = NoRouter
    /\ req = NoRequest
    /\ acked = {}
    /\ pinger = NoPinger
    /\ srv = NoServers
    /\ locker = NoLock
    /\ procs = NoProcs

\* one CreateStorage call on an empty backend; res is the StorageID returned
CreateStorageAct(chunkDataSize, numChunks, storageID, random) ==
    /\ mem = <<>>
    /\ \E r \in {CreateStorageRand(chunkDataSize, numChunks, storageID, random)} :
          /\ mem' = r.data
          /\ last' = Call("CreateStorage", <<>>, storageID, "nil", r.id, "", <<>>,
                          <<>>, -1)
    /\ UNCHANGED <<st, written, pure, nextIdx, failedIdx, calls>>
    /\ UNCHANGED <<replVars, routerVars, serverVars, concVars>>

NextCreate ==
    \E chunkDataSize \in 1..(ChunkDataSize + 1), numChunks \in 0..(NumChunks + 1),
       storageID \in StorageIDArgs, random \in RandUint64s :
          CreateStorageAct(chunkDataSize, numChunks, storageID, random)

SpecCreate == InitCreate /\ [][NextCreate]_vars

\* the step just taken was a Write / a WriteTo call
WriteStep == calls' = calls + 1 /\ last'.op = "Write"
WriteToStep == calls' = calls + 1 /\ last'.op = "WriteTo"

OutOfBounds == [err |-> "index out of bounds", data |-> <<>>]

\* ----------------------------------------------------------------- claims

\* C1: a Write of a payload no longer than NumChunks * ChunkDataSize whose
\* callback succeeds returns an index at which Read then returns exactly that
\* payload, the empty payload included.
RoundTrip ==
    (/\ last.op = "Write"
     /\ last.err = ""
     /\ Len(last.data) <= NumChunks * ChunkDataSize)
    => Read(st, mem, last.res) = [err |-> "", data |-> last.data]

\* C2: when the replication callback of a Write fails, the Write returns an
\* error, FreeChunkIdx keeps its value, Read of the allocated index answers
\* index out of bounds, and the next Write that succeeds returns that index.
ReplicationAtomicity ==
    [][/\ (WriteStep /\ last'.cb = "fail" /\ CallbackAt(last'.log) # {})
          => /\ last'.err = "replication error"
             /\ last'.res = -1
             /\ st'.header.FreeChunkIdx = st.header.FreeChunkIdx
             /\ Read(st', mem', st.header.FreeChunkIdx) = OutOfBounds
       /\ (WriteStep /\ last'.err = "" /\ failedIdx # -1)
          => last'.res = failedIdx]_vars

\* a Write succeeded at index 0 after a Write whose callback had failed left
\* a two-chunk record there: chunk 1 still holds the orphan
ReplicationAtomicityWitness ==
    /\ last.op = "Write"
    /\ last.err = ""
    /\ last.res = 0
    /\ ~pure
    /\ st.header.FreeChunkIdx = 1
    /\ mem[getChunkPosition(st, 1)].DataSize > 0

BumpAllocation ==
    [][WriteStep
       => /\ last'.err = ""
             => /\ last'.res = st.header.FreeChunkIdx
                /\ st'.header.FreeChunkIdx = last'.res + ChunksOf(st, last'.data)
                /\ mem'[0].FreeChunkIdx = st'.header.FreeChunkIdx
                /\ nextIdx # -1 => last'.res = nextIdx
          /\ \A i \in ChunkAt(last'.log) :
                last'.log[i].arg >=
                   storeHeaderSize + st.header.FreeChunkIdx * st.header.ChunkSize
          /\ \A j \in 0..(st.header.FreeChunkIdx - 1) :
                LET pos == getChunkPosition(st, j)
                IN /\ mem'[pos] = mem[pos]
                   /\ mem'[pos + chunkHeaderSize] = mem[pos + chunkHeaderSize]]_vars

\* the second of two successful Writes started where the two-chunk record of
\* the first ended
BumpAllocationWitness ==
    /\ last.op = "Write"
    /\ last.err = ""
    /\ pure
    /\ Len(written) = 2
    /\ written[1][1] = 0
    /\ last.res = 2
    /\ st.header.FreeChunkIdx = 3

\* C6: after successful Writes on a fresh engine, Iter hands its callback
\* every written record once, in the order and with the indices the Writes
\* returned, with the payloads written.
IterCompleteness ==
    (last.op = "Iter" /\ pure) => (last.err = "" /\ last.out = written)

\* C7: Read of an index below 0 or at or above FreeChunkIdx answers index out
\* of bounds and no data.
ReadOutOfBounds ==
    /\ (last.op = "Read" /\ (last.idx < 0 \/ last.idx >= last.free))
       => (last.err = "index out of bounds" /\ last.out = <<>>)
    /\ st.open
       => \A idx \in -2..(NumChunks + 2) :
             (idx < 0 \/ idx >= st.header.FreeChunkIdx)
             => Read(st, mem, idx) = OutOfBounds

\* a Read at FreeChunkIdx itself, with records below it
ReadOutOfBoundsWitness ==
    /\ last.op = "Read"
    /\ last.free > 0
    /\ last.idx = last.free
    /\ last.err = "index out of bounds"

\* C8: a Write whose record needs a chunk at or past NumChunks fails with
\* storage is full, does not invoke the callback, leaves FreeChunkIdx as it
\* was and leaves every readable record readable with the same bytes.
StorageFull ==
    [][(WriteStep
        /\ st.header.FreeChunkIdx + ChunksOf(st, last'.data) > st.header.NumChunks)
       => /\ last'.err = "storage is full"
          /\ last'.res = -1
          /\ CallbackAt(last'.log) = {}
          /\ st'.header.FreeChunkIdx = st.header.FreeChunkIdx
          /\ mem'[0] = mem[0]
          /\ \A idx \in 0..(NumChunks - 1) :
                Read(st, mem, idx).err = ""
                => Read(st', mem', idx) = Read(st, mem, idx)]_vars

\* a Write ran out of chunks after it had written some, with a record stored
\* below it
StorageFullWitness ==
    /\ last.op = "Write"
    /\ last.err = "storage is full"
    /\ last.free > 0
    /\ ChunkAt(last.log) # {}
    /\ Read(st, mem, 0).err = ""

\* C9: a record is stored gzipped, Compressed = true, exactly when the gzip
\* output is strictly shorter than the payload, and raw otherwise; all its
\* chunks carry the same flag; Read gunzips exactly when the terminal chunk's
\* flag is true.
CompressionPolicy ==
    (last.op = "Write" /\ last.err = "" /\ last.data # <<>>)
    => LET n == st.header.FreeChunkIdx - last.res
           shorter == Len(zip(last.data)) < Len(last.data)
           raw == readRaw(st, mem, last.res)
       IN /\ \A j \in 0..(n - 1) :
                mem[getChunkPosition(st, last.res + j)].Compressed = shorter
          /\ raw.gzipped = shorter
          /\ raw.buf = IF shorter THEN zip(last.data) ELSE last.data
          /\ Read(st, mem, last.res).data = last.data

\* C10: Open on a backend whose header Version is not 1 returns the version
\* mismatch error and no Storage, and writes nothing to the backend.
VersionGate ==
    mem[0].Version # storageVersion
    => /\ ~st.open
       /\ mem = CreateStorage(ChunkDataSize, NumChunks, TheStorageID, mem[0].Version)
       /\ last.op = "Open"
          => /\ last.err = "storage version mismatch"
             /\ \A i \in 1..Len(last.log) : last.log[i].ev # "WriteAt"
       /\ last.op \in {"none", "Open"}

\* Open was called on a backend of another version
VersionGateWitness ==
    /\ last.op = "Open"
    /\ mem[0].Version = 2
    /\ last.err # ""

\* C3: every record Read returns on the master is returned with the same
\* bytes by Read on the replica, whatever became of the replication requests.
ReplicaHasVisible ==
    \A idx \in 0..(NumChunks - 1) :
       Read(st, mem, idx).err = ""
       => Read(rst, rmem, idx) = Read(st, mem, idx)

\* C11: CreateStorage(backend, c, n, id) writes one 24-byte header with
\* ChunkSize = c + 32, NumChunks = n and FreeChunkIdx = 0, then exactly n
\* chunks with DataSize = 0, Next = -1, Compressed = false and c payload
\* bytes each, 24 + n * (32 + c) bytes in all; an engine opened on it reads
\* no record at any index, and is not full when n >= 1.
CreateLayout ==
    /\ \A c \in 1..(ChunkDataSize + 1), n \in 0..(NumChunks + 1) :
          LET mb == createBackend(c, n, TheStorageID, storageVersion)
              s == Open(mb.data).s
              pos == {24 + i * (32 + c) : i \in 0..(n - 1)}
          IN /\ mb.data[0] = [StorageID |-> TheStorageID, Version |-> 1,
                               ChunkSize |-> c + 32, NumChunks |-> n,
                               FreeChunkIdx |-> 0]
             /\ DOMAIN mb.data = {0} \cup pos \cup {q + 32 : q \in pos}
             /\ \A q \in pos :
                   /\ mb.data[q] = [DataSize |-> 0, Next |-> -1, Compressed |-> FALSE]
                   /\ mb.data[q + 32] = [j \in 1..c |-> 0]
                   /\ q \in Positions(s.header.ChunkSize, n)
             /\ mb.idx = 24 + n * (32 + c)
             /\ s.open
             /\ \A idx \in -1..(n + 1) : Read(s, mb.data, idx) = OutOfBounds
             /\ n >= 1 => ~IsFull(s)
    /\ (st.open /\ calls = 0)
       => /\ mem = createBackend(ChunkDataSize, NumChunks, TheStorageID,
                                 storageVersion).data
          /\ \A idx \in -1..(NumChunks + 1) : Read(st, mem, idx).err # ""
          /\ last.op = "Read" => last.err = "index out of bounds"
          /\ last.op = "Iter" => last.out = <<>>
          /\ ~IsFull(st)

\* an engine opened on a freshly created backend was asked for index 0
CreateLayoutWitness ==
    /\ calls = 0
    /\ st.open
    /\ last.op = "Read"
    /\ last.idx = 0
    /\ mem[getChunkPosition(st, NumChunks - 1)].Next = -1

\* C12: router put/get round trip.  When POST /put was answered 200 with
\* {instance_id, item_id}, a later GET /get/{instance_id}/{item_id} whose
\* request reached an alive reader of that shard (the answer the router acted
\* on came from the storage server's handler) is answered 200 with exactly the
\* item that was put, in every configuration Start accepted.
RouterRoundTrip ==
    (req.op = "get" /\ req.pc = "done" /\ req.lastFate = "served")
        => \A a \in acked :
              (a.instance_id = req.iid /\ a.item_id = req.item)
                 => /\ req.status = 200
                    /\ req.body = [items |-> <<[id |-> req.item, data |-> a.data]>>]

\* the hosts a request was sent to
SentTo(q) == {q.sent[i] : i \in 1..Len(q.sent)}

\* C13: router write retries.  One POST /put sends at most 3 append POSTs,
\* each to a writer of the alive-writers snapshot taken at the start of the
\* call and none to a writer that was not alive then; a 200 answer ends the
\* call with 200; after 3 failed attempts the call returns 500.
RouterWriteRetries ==
    req.op = "put" =>
        /\ Len(req.sent) <= 3
        /\ SentTo(req) \subseteq {w.host : w \in req.snapshot}
        /\ SentTo(req) \cap req.dead = {}
        /\ req.lastCode = 200 => (req.pc = "done" /\ req.status = 200)
        /\ req.status = 200 => req.lastCode = 200
        /\ (req.lastCode # 200 /\ Len(req.sent) = 3)
              => (req.pc = "done" /\ req.status = 500)
        /\ req.status = 500 => Len(req.sent) = 3

RouterWriteRetriesWitness ==
    /\ req.op = "put"
    /\ req.pc = "done"
    /\ req.dead # {}
    /\ Len(req.sent) = 3
    /\ req.status = 500

\* C14: router 404 short-circuit.  In a GET /get/{instanceID}/{itemID}, with
\* one or more alive readers, once a reader answered 404 the router sends no
\* further upstream request and answers 404.
RouterNotFoundShortCircuit ==
    (req.op = "get" /\ req.lastCode = 404)
        => (req.pc = "done" /\ req.status = 404)

\* C15: router read retries.  With two or more alive readers in the snapshot
\* one GET /get sends at most 3 upstream GETs, each to a reader of the shard
\* that was alive at snapshot time; a transport error or a non-2xx answer
\* other than 404 leads to another attempt; the first 200 ends the loop and
\* its body is returned; after 3 failed attempts the router answers 502.
RouterReadRetries ==
    (req.op = "get" /\ Len(req.snapshot) >= 2) =>
        /\ Len(req.sent) <= 3
        /\ SentTo(req) \subseteq {req.snapshot[k] : k \in 1..Len(req.snapshot)}
        /\ SentTo(req) \subseteq
              {rt.readers[req.iid][k].host : k \in 1..Len(rt.readers[req.iid])}
        /\ SentTo(req) \cap req.dead = {}
        /\ (req.sent # <<>> /\ req.lastCode \in {0, 500} /\ Len(req.sent) < 3)
              => req.pc = "loop"
        /\ req.lastCode = 200
              => /\ req.pc = "done"
                 /\ req.status = 200
                 /\ LET h == req.sent[Len(req.sent)]
                    IN req.body = [items |-> <<[id |-> req.item,
                          data |-> getData(hosts[h].s, hosts[h].mem, req.item).data]>>]
        /\ (Len(req.sent) = 3 /\ req.lastCode # 200
               /\ ~(req.lastCode = 404 /\ req.lastFate = "notfound"))
              => (req.pc = "done" /\ req.status = 502)

RouterReadRetriesWitness ==
    /\ req.op = "get"
    /\ req.pc = "done"
    /\ Len(req.snapshot) >= 2
    /\ Len(req.sent) = 3
    /\ req.lastCode = 200
    /\ acked # {}

\* C16: router read rejection.  GET /get/{instanceID}/{itemID} is answered
\* 400 when instanceID is no unsigned decimal, 404 when it is no key of
\* readers, 502 when every reader of the shard was dead at snapshot time; in
\* all three cases no upstream request is sent.
RouterReadRejection ==
    req.op = "get" =>
        /\ req.iid < 0
              => (req.pc = "done" /\ req.status = 400 /\ req.sent = <<>>)
        /\ (req.iid >= 0 /\ req.iid \notin DOMAIN rt.readers)
              => (req.pc = "done" /\ req.status = 404 /\ req.sent = <<>>)
        /\ (req.iid \in DOMAIN rt.readers
               /\ req.dead = {rt.readers[req.iid][k].host :
                                 k \in 1..Len(rt.readers[req.iid])})
              => (req.pc = "done" /\ req.status = 502 /\ req.sent = <<>>)

RouterReadRejectionWitness ==
    /\ req.op = "get"
    /\ req.iid \in DOMAIN rt.readers
    /\ req.dead = {"m1", "r1"}
    /\ req.status = 502
    /\ acked # {}

\* the paths a started server serves for a method
Served(server, method) ==
    {r.path : r \in {x \in server.routes : method \in x.methods}}

\* C17: role gating.  A server in master role serves append and never
\* set/{idx}; a server in replica role serves set/{idx} and never append; both
\* serve get and info; so the storage of a replica changes only through
\* set/{idx} requests (sent by a client or by a replicating server).
RoleGatingStep ==
    /\ \A who \in {"a", "b"} :
          srv'[who].started =>
             /\ {"info", "get"} \subseteq Served(srv'[who], "GET")
             /\ srv'[who].role = "master"
                   => /\ "append" \in Served(srv'[who], "POST")
                      /\ \A r \in srv'[who].routes : r.path # "set"
             /\ srv'[who].role = "replica"
                   => /\ "set" \in Served(srv'[who], "POST")
                      /\ \A r \in srv'[who].routes : r.path # "append"
    /\ calls' = calls + 1 =>
          LET q == req'
              role == srv[q.who].role
          IN /\ (role = "master" /\ q.op = "set")
                   => (q.status = 404 /\ UNCHANGED <<st, mem, rst, rmem>>)
             /\ (role = "replica" /\ q.op = "append")
                   => (q.status = 404 /\ UNCHANGED <<st, mem, rst, rmem>>)
             /\ (q.op \in {"get", "info"} /\ q.method = "GET")
                   => q.status \notin {404, 405}
             /\ (role = "master" /\ q.op = "append" /\ q.method = "POST")
                   => q.status \notin {404, 405}
             /\ (role = "replica" /\ q.op = "set" /\ q.method = "POST")
                   => q.status \notin {404, 405}
    /\ (srv["b"].role = "replica" /\ <<rst, rmem>>' # <<rst, rmem>>)
          => /\ calls' = calls + 1
             /\ \/ req'.who = "b" /\ req'.op = "set" /\ req'.method = "POST"
                \/ req'.who = "a" /\ srv["a"].replicate
    /\ (srv["a"].role = "replica" /\ <<st, mem>>' # <<st, mem>>)
          => /\ calls' = calls + 1
             /\ req'.who = "a" /\ req'.op = "set" /\ req'.method = "POST"

RoleGating == [][RoleGatingStep]_vars

RoleGatingWitness ==
    /\ srv["b"].started
    /\ srv["b"].role = "replica"
    /\ rst.header.FreeChunkIdx > 0
    /\ req.op = "append"
    /\ req.who = "b"
    /\ req.method = "POST"
    /\ req.status = 404

\* C18: replication precheck.  A server configured with a replica target
\* starts only if the target's info arrives and reports ServerType
\* "replica", ChunkDataSize and NumChunks not below the local ones and the
\* local StorageID; otherwise Start returns an error and serves nothing.
ReplicationPrecheck ==
    (srv["a"].role # "none" /\ srv["a"].replicate) =>
        LET info == srv["a"].info
        IN /\ info.ok => /\ info.ServerType = srv["b"].role
                         /\ info.ChunkDataSize = rst.header.ChunkSize - chunkHeaderSize
                         /\ info.NumChunks = rst.header.NumChunks
                         /\ info.StorageID = rst.header.StorageID
           /\ srv["a"].started
                 <=> /\ info.ok
                     /\ info.ServerType = "replica"
                     /\ info.ChunkDataSize >= st.header.ChunkSize - chunkHeaderSize
                     /\ info.NumChunks >= st.header.NumChunks
                     /\ info.StorageID = st.header.StorageID
           /\ srv["a"].started => (srv["a"].err = "" /\ srv["a"].routes # {})
           /\ ~srv["a"].started => (srv["a"].err # "" /\ srv["a"].routes = {})

ReplicationPrecheckWitness ==
    /\ srv["a"].role # "none"
    /\ srv["a"].replicate
    /\ ~srv["a"].started
    /\ srv["a"].info.ok
    /\ srv["a"].info.ServerType = "replica"
    /\ srv["a"].info.ChunkDataSize > st.header.ChunkSize - chunkHeaderSize
    /\ srv["a"].info.NumChunks > st.header.NumChunks
    /\ srv["a"].info.StorageID # st.header.StorageID

\* the engine that results from the committed records alone: the successful
\* calls, in commit order, on a freshly created storage
RECURSIVE Replay(_, _, _)
Replay(s, m, ws) ==
    IF ws = <<>> THEN [s |-> s, mem |-> m]
    ELSE LET r == WriteTo(s, m, Head(ws)[2], Head(ws)[1], "ok")
         IN Replay(r.s, r.mem, Tail(ws))

\* C19: read/write isolation.  Under any interleaving of concurrent Read,
\* Iter, Write and WriteTo calls a mutation excludes the other mutations and
\* the reads, and a Read(idx) returns 'index out of bounds' or what the
\* committed records alone make it return: no byte of a write in progress or
\* of a write whose callback failed.
ReadIsolation ==
    /\ locker.w # 0 => locker.r = {}
    /\ \A p \in Procs :
          /\ procs[p].pc \in {"chunks", "commit"} => locker.w = p
          /\ procs[p].pc = "iter" => p \in locker.r
          /\ (procs[p].op = "Read" /\ procs[p].pc = "done")
                => LET c == Replay(Open(FreshBackend).s, FreshBackend,
                                   SubSeq(written, 1, procs[p].seen))
                       r == Read(c.s, c.mem, procs[p].idx)
                   IN \/ procs[p].err = "index out of bounds"
                      \/ procs[p].err = r.err /\ procs[p].out = r.data

\* the chunks a successful Write occupies
Range(p) ==
    procs[p].res..(procs[p].res + ChunksOf(st, procs[p].data) - 1)

\* C20: concurrent Writes.  When all calls made on the engine are concurrent
\* Write calls, those that succeed return pairwise distinct start indices and
\* occupy pairwise disjoint chunk ranges, and the one whose Lock returned
\* first has the lower index.
ConcurrentWrites ==
    (/\ \A p \in Procs : procs[p].op \in {"Write", "none"}
     /\ calls = Cardinality({p \in Procs : procs[p].op = "Write"}))
        => \A p, q \in {x \in Procs : /\ procs[x].op = "Write"
                                       /\ procs[x].pc = "done"
                                       /\ procs[x].err = ""} :
              p # q => /\ procs[p].res # procs[q].res
                       /\ Range(p) \cap Range(q) = {}
                       /\ procs[p].ticket < procs[q].ticket
                             => procs[p].res < procs[q].res

\* C21: the JSON response helper answers a handler error that is an
\* HTTPError{code, message} with status code and body {"error": message}, and
\* a handler error of any other type with status 500
ErrorMapping ==
    (req.op = "json" /\ req.result.kind # "data") =>
        /\ req.body = [error |-> req.result.Message]
        /\ req.result.kind = "HTTPError" => req.status = req.result.Code
        /\ req.result.kind = "error" => req.status = 500

\* C22: over Write and WriteTo calls, with any idx, succeeding or failing,
\* FreeChunkIdx never decreases: a WriteTo whose record ends at or below the
\* current FreeChunkIdx leaves it unchanged
FreeMonotonicStep ==
    (st.open /\ st'.open) =>
        /\ st'.header.FreeChunkIdx >= st.header.FreeChunkIdx
        /\ (WriteToStep /\ last'.err = ""
            /\ last'.idx + ChunksOf(st, last'.data) <= st.header.FreeChunkIdx)
               => st'.header.FreeChunkIdx = st.header.FreeChunkIdx
FreeMonotonic == [][FreeMonotonicStep]_vars

\* C23: an Iter call and a concurrent Write / WriteTo never wait on each
\* other: Iter, holding the shared lock for its traversal, is never kept from
\* the shared lock readRaw takes again by a Lock call that waits for Iter
IterNoDeadlock ==
    \A p \in Procs, q \in Procs :
        ~ /\ procs[p].pc = "iter"
          /\ p \in locker.r
          /\ procs[p].at < st.header.FreeChunkIdx
          /\ ~CanRLock(locker)
          /\ procs[q].pc = "waiting"
          /\ q \in locker.pending
          /\ ~CanLock(locker)

\* C24: WriteTo with idx outside [0, NumChunks), negative or past the end,
\* fails with "index out of bounds", writes nothing to the backend, does not
\* invoke the callback and leaves FreeChunkIdx unchanged
WriteIndexBoundsStep ==
    (WriteToStep /\ (last'.idx < 0 \/ last'.idx >= NumChunks)) =>
        /\ last'.err = "index out of bounds"
        /\ mem' = mem
        /\ CallbackAt(last'.log) = {}
        /\ st'.header.FreeChunkIdx = st.header.FreeChunkIdx
WriteIndexBounds == [][WriteIndexBoundsStep]_vars

\* the chunks from start up to FreeChunkIdx are records laid end to end: each
\* a run of consecutive chunks whose inner chunks are full and point at the
\* next chunk and whose last chunk holds 1..C bytes and has Next = -1
RECURSIVE ChainsFrom(_, _, _)
ChainsFrom(s, m, start) ==
    IF start = s.header.FreeChunkIdx THEN TRUE
    ELSE IF start > s.header.FreeChunkIdx THEN FALSE
    ELSE LET r == readRaw(s, m, start)
             end == start + r.chunkCount - 1
         IN /\ r.err = ""
            /\ end < s.header.FreeChunkIdx
            /\ \A i \in start..end :
                  LET h == m[getChunkPosition(s, i)]
                  IN /\ h.Compressed = r.gzipped
                     /\ IF i < end
                        THEN h.Next = i + 1 /\ h.DataSize = GetChunkDataSize(s)
                        ELSE /\ h.Next = -1
                             /\ 0 < h.DataSize
                             /\ h.DataSize <= GetChunkDataSize(s)
            /\ ChainsFrom(s, m, end + 1)

\* C25: after any Write calls, with succeeding or failing callbacks, every
\* committed record of effective length L at idx occupies the ceil(L/C)
\* consecutive chunks from idx: inner chunks have Next = index + 1 and
\* DataSize = C, the last one Next = -1 and 0 < DataSize <= C, all lie below
\* FreeChunkIdx and following Next from a record's start stays in the record
RecordChain ==
    st.open =>
        /\ st.header.FreeChunkIdx \in 0..st.header.NumChunks
        /\ ChainsFrom(st, mem, 0)
        /\ \A k \in 1..Len(written) :
              LET e == EffectiveBuffer(written[k][2])
                  r == readRaw(st, mem, written[k][1])
              IN Len(e.buf) > 0 =>
                    /\ r.err = ""
                    /\ r.chunkCount = Ceil(Len(e.buf), GetChunkDataSize(st))
                    /\ r.buf = e.buf
                    /\ r.gzipped = e.gzipped

\* a record of two chunks is committed and the Write after it has failed in
\* its callback, leaving its chunk behind the free pointer
RecordChainWitness ==
    /\ st.open
    /\ st.header.FreeChunkIdx = 2
    /\ calls = 2
    /\ last.op = "Write"
    /\ last.err = "replication error"
    /\ ChunkAt(last.log) # {}

\* C26: from the moment a Write / WriteTo has the engine's lock until it
\* returns, the replication callback's whole run included, it keeps the lock
\* and no other Read, Iter, IsFull, Write or WriteTo on the engine completes
LockAcrossReplicationStep ==
    \A p \in Procs :
        /\ procs[p].pc \in {"chunks", "commit"} => locker.w = p
        /\ locker.w = p =>
              \A q \in Procs \ {p} :
                 /\ procs'[q].pc = "done" => procs[q] = procs'[q]
                 /\ procs[q].pc \notin {"chunks", "commit", "iter"}
                 /\ procs'[q].pc \notin {"chunks", "commit", "iter"}
LockAcrossReplication == [][LockAcrossReplicationStep]_vars

\* a Write has written its chunks and its callback is running while a Read
\* called by another goroutine waits for the lock
LockAcrossReplicationWitness ==
    \E p \in Procs, q \in Procs :
        /\ procs[p].pc = "commit"
        /\ procs[p].op = "Write"
        /\ ChunksOf(st, procs[p].data) > 0
        /\ locker.w = p
        /\ procs[q].pc = "rlock"
        /\ procs[q].op = "Read"
        /\ procs[q].idx < procs[p].free
        /\ procs[q].idx >= st.header.FreeChunkIdx

\* C27: whenever Write or WriteTo returns an error, whatever the reason
\* (storage full, index out of bounds, a backend write error, a replication
\* error, a failure to write the header), the FreeChunkIdx the later calls
\* use is the one from before the call
FailedWriteKeepsFreeStep ==
    (calls' = calls + 1 /\ last'.op \in {"Write", "WriteTo"} /\ last'.err # "")
        => st'.header.FreeChunkIdx = st.header.FreeChunkIdx
FailedWriteKeepsFree == [][FailedWriteKeepsFreeStep]_vars

\* C28: in every state of an engine, after Write and WriteTo calls with any
\* payload, the empty one included, and any idx, 0 <= FreeChunkIdx <=
\* NumChunks, so that every index Read's bounds test accepts has a chunk
\* position
FreeBounds ==
    st.open =>
        /\ 0 <= st.header.FreeChunkIdx
        /\ st.header.FreeChunkIdx <= st.header.NumChunks
        /\ \A idx \in 0..(st.header.FreeChunkIdx - 1) :
              getChunkPosition(st, idx) >= 0

\* C29: whenever WriteTo returns an error (storage full part-way through the
\* record, a replication callback error), every record that was readable
\* before the call is readable after it, with the same bytes
FailedWriteToPreservesStep ==
    (WriteToStep /\ last'.err # "") =>
        \A idx \in 0..(NumChunks - 1) :
            Read(st, mem, idx).err = "" => Read(st', mem', idx) = Read(st, mem, idx)
FailedWriteToPreserves == [][FailedWriteToPreservesStep]_vars

\* C30: for a master and a replica of the same geometry, the replica written
\* by the master's replication only, after every append the master reports as
\* successful the replica's FreeChunkIdx equals the master's, also after
\* earlier appends that the replica applied but that failed on the master
\* because the answer was lost or late
ReplicaFreeTracksStep ==
    (calls' = calls + 1 /\ last'.op = "append" /\ last'.err = "")
        => rst'.header.FreeChunkIdx = st'.header.FreeChunkIdx
ReplicaFreeTracks == [][ReplicaFreeTracksStep]_vars

\* the second append succeeded with a record of one chunk at index 0, where
\* the first one, of two chunks, failed on the master after the replica had
\* applied it: the replica's chunk 1 still holds its second half
ReplicaFreeTracksWitness ==
    /\ calls = 2
    /\ last.op = "append"
    /\ last.err = ""
    /\ last.res = 0
    /\ st.header.FreeChunkIdx = 1
    /\ rst.header.FreeChunkIdx = 1
    /\ rmem[getChunkPosition(rst, 1)].DataSize > 0
    /\ net = {}

\* the pair u has an entry in the writers or in the readers of router r
Registered(r, u) ==
    \/ \E iid \in DOMAIN r.writers : r.writers[iid].host = Upstreams[u].master
    \/ \E iid \in DOMAIN r.readers : \E k \in 1..Len(r.readers[iid]) :
          r.readers[iid][k].host \in {Upstreams[u].master, Upstreams[u].replica}

\* C35: for every pair, wherever it stands in the upstream list and whatever
\* errors other pairs met, if the info requests to its master and to its
\* replica both succeed the pair is registered only if the two StorageIDs
\* are equal: a pair whose StorageIDs differ is never registered
StartupIDCheck ==
    \A upstreams \in UpstreamOrders, reach \in AnyReaches :
        LET r == Start(FALSE, upstreams, infosOf(hosts, reach))
        IN r.started =>
              \A u \in DOMAIN Upstreams :
                 (/\ reach[Upstreams[u].master]
                  /\ reach[Upstreams[u].replica]
                  /\ hosts[Upstreams[u].master].s.header.StorageID
                        # hosts[Upstreams[u].replica].s.header.StorageID)
                    => ~Registered(r, u)

\* C36: a pair that reports a StorageID an earlier pair registered is skipped
\* entirely: every shard's writer is the master of the pair that serves its
\* reads, readers[id] being that pair's master and replica
DuplicateRejection ==
    \A upstreams \in UpstreamOrders, reach \in AnyReaches :
        LET r == Start(FALSE, upstreams, infosOf(hosts, reach))
        IN r.started =>
              \A iid \in DOMAIN r.writers :
                 /\ iid \in DOMAIN r.readers
                 /\ \E u \in DOMAIN Upstreams :
                       /\ r.writers[iid].host = Upstreams[u].master
                       /\ [k \in 1..Len(r.readers[iid]) |-> r.readers[iid][k].host]
                             = <<Upstreams[u].master, Upstreams[u].replica>>

\* C37: single-reader read path.  When exactly one reader of the shard is
\* alive at snapshot time the router sends exactly one upstream GET; a
\* transport error is answered 502, and a non-200 upstream answer is passed
\* through with the upstream's status code (an upstream 404 is answered 404,
\* never 200).
SingleReaderPath ==
    (req.op = "get" /\ Len(req.snapshot) = 1) =>
        /\ Len(req.sent) <= 1
        /\ req.pc = "done" =>
              /\ Len(req.sent) = 1
              /\ req.sent[1] = req.snapshot[1]
              /\ req.lastCode = 0 => req.status = 502
              /\ req.lastCode \notin {0, 200} => req.status = req.lastCode

\* C38: no alive writer.  When every writer is dead at snapshot time putData
\* enters its retry loop with an empty snapshot (there is no guard), and the
\* loop's first step, an index picked in the empty list, ends the handler:
\* no POST is sent upstream, no storage changes, and no answer is produced,
\* neither the 500 of the exhausted retries nor a 502.
NoAliveWriterStep ==
    /\ (/\ calls' = calls + 1
        /\ req'.op = "put"
        /\ req'.status # 400
        /\ \A iid \in DOMAIN rt.writers : ~rt.writers[iid].isAlive)
          => (req'.pc = "loop" /\ req'.snapshot = {})
    /\ (req.op = "put" /\ req.pc = "loop" /\ req.snapshot = {} /\ req' # req)
          => /\ req'.pc = "done"
             /\ req'.sent = <<>>
             /\ req'.status = 0
             /\ req'.body = <<>>
             /\ hosts' = hosts
             /\ acked' = acked

NoAliveWriter == [][NoAliveWriterStep]_vars

NoAliveWriterWitness ==
    /\ req.op = "put"
    /\ req.pc = "done"
    /\ req.snapshot = {}
    /\ req.dead # {}
    /\ req.sent = <<>>
    /\ req.status = 0

\* the records on the masters that hold the payload data
CommittedCopies(hs, data) ==
    {<<h, idx>> \in {Upstreams[u].master : u \in DOMAIN Upstreams} \X (0..(NumChunks - 1)) :
        LET g == getData(hs[h].s, hs[h].mem, idx)
        IN g.code = 200 /\ g.data = data}

\* C39: at most one record per put.  For a POST /put handled by the router,
\* over all shards at most one record with the request's payload is committed
\* on a master, whatever upstream requests time out, lose their answer or are
\* retried; a put answered 500 left no committed record, a put answered 200
\* exactly one.
OneRecordPerPut ==
    req.op = "put" =>
        /\ Cardinality(CommittedCopies(hosts, req.data)) <= 1
        /\ (req.pc = "done" /\ req.status = 500)
              => CommittedCopies(hosts, req.data) = {}
        /\ (req.pc = "done" /\ req.status = 200)
              => Cardinality(CommittedCopies(hosts, req.data)) = 1

\* C40: StorageID assignment.  CreateStorage called with storageID = 0 stores
\* in the header and returns a StorageID different from 0, whatever value the
\* random source produces; called with storageID # 0 it stores and returns
\* exactly that value.
StorageIDAssignment ==
    last.op = "CreateStorage" =>
        /\ mem[0].StorageID = last.res
        /\ last.idx = 0 => last.res # 0
        /\ last.idx # 0 => last.res = last.idx

\* every store in log stands between a Lock and an Unlock of lock
WritesUnderLock(log, lock) ==
    \A j \in 1..Len(log) :
        log[j].ev = "write" =>
            /\ \E i \in 1..(j - 1) :
                  /\ log[i] = LockEv(lock)
                  /\ \A m \in (i + 1)..(j - 1) : log[m] # UnlockEv(lock)
            /\ \E i \in (j + 1)..Len(log) : log[i] = UnlockEv(lock)

\* the step is the turn of a writer / of a reader in the pinger's round
WriterPinged == pinger.pc = "writers" /\ pinger'.wtodo # pinger.wtodo
ReaderPinged == pinger.pc = "readers" /\ pinger'.rtodo # pinger.rtodo

\* C31: pinger writer rule.  After the turn of a writer in a health round its
\* isAlive is false when the info request met a transport error and is
\* NOT IsFull of the answer otherwise; isAlive is stored only between Lock
\* and Unlock of writerLock, and a writer whose state does not change is not
\* stored at all.
PingerWriterRuleStep ==
    WriterPinged =>
        \A iid \in pinger.wtodo \ pinger'.wtodo :
            LET h == rt.writers[iid].host
                newAlive == h \notin pinger.down /\ ~IsFull(hosts[h].s)
            IN /\ rt'.writers[iid].isAlive = newAlive
               /\ WritesUnderLock(pinger'.log, "writerLock")
               /\ newAlive = rt.writers[iid].isAlive => pinger'.log = <<>>
               /\ newAlive # rt.writers[iid].isAlive
                     => \E j \in 1..Len(pinger'.log) :
                           pinger'.log[j] = WriteEv("writers", newAlive)

PingerWriterRule == [][PingerWriterRuleStep]_vars

\* the pinger has just marked the full, reachable writer of shard 7 dead
PingerWriterRuleWitness ==
    /\ pinger.pc = "readers"
    /\ 7 \in DOMAIN rt.writers
    /\ ~rt.writers[7].isAlive
    /\ rt.writers[7].host \notin pinger.down
    /\ IsFull(hosts[rt.writers[7].host].s)
    /\ pinger.log = <<LockEv("writerLock"), WriteEv("writers", FALSE),
                      UnlockEv("writerLock")>>

\* C32: pinger reader rule.  After the turn of a reader in a health round its
\* isAlive is false when the info request met a transport error and true
\* when it succeeded, whether the storage is full or not; the turn of a
\* writer, marking it dead for fullness included, leaves the alive state of
\* every reader unchanged.
PingerReaderRuleStep ==
    /\ ReaderPinged =>
          \A e \in pinger.rtodo \ pinger'.rtodo :
              LET h == rt.readers[e[1]][e[2]].host
              IN /\ rt'.readers[e[1]][e[2]].isAlive = (h \notin pinger.down)
                 /\ WritesUnderLock(pinger'.log, "readerLock")
                 /\ rt'.writers = rt.writers
    /\ WriterPinged => rt'.readers = rt.readers

PingerReaderRule == [][PingerReaderRuleStep]_vars

\* in the round that marked the full writer of shard 7 dead its first reader,
\* the same host, was found dead before, answered, and is alive again
PingerReaderRuleWitness ==
    /\ pinger.pc = "readers"
    /\ pinger.rtodo = {<<7, 2>>}
    /\ ~rt.writers[7].isAlive
    /\ rt.readers[7][1].host = rt.writers[7].host
    /\ IsFull(hosts[rt.readers[7][1].host].s)
    /\ rt.readers[7][1].isAlive
    /\ pinger.log = <<LockEv("readerLock"), WriteEv("readers", TRUE),
                      UnlockEv("readerLock")>>

\* C34: pinger shutdown.  Stop() hands one value to the pinger over the
\* unbuffered pingerStop channel; once the pinger has received it the health
\* loop has ended: no info request is sent any more and no isAlive changes.
PingerShutdownStep ==
    pinger.stopped =>
        /\ ~WriterPinged
        /\ ~ReaderPinged
        /\ rt' = rt

PingerShutdown == [][PingerShutdownStep]_vars

\* the writer of shard 7 answers info requests and has a free chunk
WriterHealthy == "m1" \notin pinger.down /\ ~IsFull(hosts["m1"].s)

\* a /put that starts takes no dead writer into its snapshot, and an append
\* POST goes to a writer of the snapshot only
DeadWriterGetsNoAppendStep ==
    /\ (calls' = calls + 1 /\ req'.op = "put")
          => \A iid \in DOMAIN rt.writers :
                ~rt.writers[iid].isAlive
                   => \A w \in req'.snapshot : w.host # rt.writers[iid].host
    /\ (req'.op = "put")
          => SentTo(req') \subseteq {w.host : w \in req'.snapshot}

\* C33: health convergence.  With the pinger running fairly, a writer that
\* from some time on stays reachable and not full is eventually marked alive
\* and stays alive; a writer that stays unreachable or full is eventually
\* marked dead and stays dead, and a /put that starts while it is dead sends
\* it no append POST.
HealthConvergence ==
    /\ <>[]WriterHealthy => <>[]rt.writers[7].isAlive
    /\ <>[](~WriterHealthy) => <>[](~rt.writers[7].isAlive)
    /\ [][DeadWriterGetsNoAppendStep]_vars

\* the unreachable writer was marked dead, and a /put that started afterwards
\* has ended without a POST to it
HealthConvergenceWitness ==
    /\ ~rt.writers[7].isAlive
    /\ "m1" \in pinger.down
    /\ pinger.pc = "select"
    /\ req.op = "put"
    /\ req.pc = "done"
    /\ req.dead = {"m1"}
    /\ req.sent = <<>>

====
